---- MODULE Spec2Model ----
(***************************************************************************)
(* A model of the template indexer (template.ts, context.ts, transform.ts), *)
(* of the invalid-interpolation repair pass and of the template printer    *)
(* (desugar.ts).                                                           *)
(*                                                                         *)
(* Text is a sequence of one-character strings; offsets are 0-based as in  *)
(* the TypeScript source, so the character at offset k is text[k + 1].     *)
(***************************************************************************)
EXTENDS Integers, Sequences, FiniteSets, TLC

VARIABLES
  \* ---- template indexer (template.ts) ----
  template,      \* the parsed template handed to getTemplateIdentifiers
  agenda,        \* the pending part of the traversal (the call stack of visit)
  context,       \* TemplateVisitor.context
  identifiers,   \* TemplateVisitor.identifiers
  origin,        \* history: for each identifier, the tree address of its node
  visiting,      \* "visiting" | "returned" | "Error" | "ErrorOutsideNode" | "TypeError"
  firstCall,     \* history: the template as parsed and how the first call on it ended
  \* ---- analysis context and generator (context.ts, transform.ts) ----
  components,    \* IndexingContext.components, in insertion order
  calls,         \* history: the argument of every addComponent call
  phase,         \* "populate" | "pass1" | "pass2" | "done" | "threw"
  cursor,        \* index of the component the running pass is at
  componentMap,  \* name -> analysis object (0 when absent)
  pending,       \* per component, data.usedComponents of the first pass
  analyses,      \* the analysis objects, addressed by their index
  returned,      \* the array generateAnalysis returned (of analysis objects)
  \* ---- interpolation repair (fixInterpolations) ----
  resolved,      \* the ResolvedTemplate under repair
  firstFix,      \* fixInterpolations(resolved)
  secondFix,     \* fixInterpolations over firstFix.newContent
  stage,         \* "start" | "fixed" | "refixed"
  \* ---- the run of the repair over a project (fixInvalidInterpolations) ----
  resolvedTemplates,  \* templateVisitor.resolvedTemplates
  tree,               \* the files of the tree: readable or not, and their text
  fixesByFile,        \* the Map of getFixesByFile, in insertion order
  progress,           \* "collect" | "apply" | "report" | "done" | "returned"
  at,                 \* index of the template or file the running loop is at
  collectedFixes,     \* the report lines collected so far
  logged,             \* what the logger was given, in order
  \* ---- the expression visitor on its own (ExpressionVisitor) ----
  exprAst,       \* the parsed expression handed to ExpressionVisitor.visit
  exprEntities,  \* what the visit returned
  exprVisited,   \* whether the visit has returned
  \* ---- the template printer (desugar.ts, Printer) ----
  printed,       \* the template handed to printDesugaredTemplate
  buffer,        \* Printer.buffer
  indent,        \* Printer.indent
  printing,      \* the pending part of the printing (the call stack of the visits)
  printer        \* "printing" | "returned"

indexerVars == <<template, agenda, context, identifiers, origin, visiting, firstCall>>
analysisVars ==
  <<components, calls, phase, cursor, componentMap, pending, analyses, returned>>
repairVars == <<resolved, firstFix, secondFix, stage>>
schematicVars ==
  <<resolvedTemplates, tree, fixesByFile, progress, at, collectedFixes, logged>>
expressionVars == <<exprAst, exprEntities, exprVisited>>
printerVars == <<printed, buffer, indent, printing, printer>>
vars ==
  <<indexerVars, analysisVars, repairVars, schematicVars, expressionVars, printerVars>>

(***************************************************************************)
(* Text helpers                                                            *)
(***************************************************************************)
RECURSIVE Concat(_)
Concat(seqs) ==
  IF seqs = <<>> THEN <<>> ELSE Head(seqs) \o Concat(Tail(seqs))

\* JavaScript's String.prototype.substring(start, end) for 0 <= start <= end
Substring(text, start, end) == SubSeq(text, start + 1, end)

Letters == {"a", "b", "c", "d", "e", "f", "g", "h", "i", "j", "k", "l", "m",
            "n", "o", "p", "q", "r", "s", "t", "u", "v", "w", "x", "y", "z"}
Digits == {"0", "1"}
Whitespace == {" ", "\n"}
Quotes == {"'", "\""}

(***************************************************************************)
(* The expression lexer (Lexer.tokenize of the compiler), as far as the    *)
(* indexer reads it: the type, index and strValue of every token.          *)
(***************************************************************************)
KEYWORDS == {<<"l", "e", "t">>, <<"a", "s">>, <<"i", "f">>, <<"v", "a", "r">>}

RECURSIVE ScanWhile(_, _, _)
\* first position >= pos whose character is not in chars
ScanWhile(text, pos, chars) ==
  IF pos <= Len(text) /\ text[pos] \in chars
  THEN ScanWhile(text, pos + 1, chars) ELSE pos

RECURSIVE ScanQuote(_, _, _)
\* position of the quote closing a string opened before pos, Len + 1 if none
ScanQuote(text, pos, quote) ==
  IF pos <= Len(text) /\ text[pos] # quote
  THEN ScanQuote(text, pos + 1, quote) ELSE pos

Token(type, pos, str) == [type |-> type, index |-> pos - 1, strValue |-> str]

RECURSIVE Tokenize(_, _)
Tokenize(text, pos) ==
  IF pos > Len(text) THEN <<>>
  ELSE LET c == text[pos] IN
    IF c \in Whitespace THEN Tokenize(text, pos + 1)
    ELSE IF c \in Letters THEN
      LET end == ScanWhile(text, pos, Letters \cup Digits)
          str == SubSeq(text, pos, end - 1)
      IN <<Token(IF str \in KEYWORDS THEN "Keyword" ELSE "Identifier", pos, str)>>
           \o Tokenize(text, end)
    ELSE IF c \in Digits THEN
      LET end == ScanWhile(text, pos, Digits)
      IN <<Token("Number", pos, SubSeq(text, pos, end - 1))>> \o Tokenize(text, end)
    ELSE IF c \in Quotes THEN
      LET end == ScanQuote(text, pos + 1, c)
      IN <<Token(IF end > Len(text) THEN "Error" ELSE "String", pos,
                 SubSeq(text, pos + 1, end - 1))>> \o Tokenize(text, end + 1)
    ELSE <<Token("Character", pos, <<c>>)>> \o Tokenize(text, pos + 1)

(***************************************************************************)
(* Expressions.  An expression is written as a tree [kind, name, args]; the *)
(* expression parser of the compiler turns its source text into the same   *)
(* tree with a span on every node: the extent of the node's own text,      *)
(* which for a property read a.b starts where its receiver starts.         *)
(***************************************************************************)
Expr(kind, name, args) == [kind |-> kind, name |-> name, args |-> args]
ImplicitReceiver == Expr("ImplicitReceiver", <<>>, <<>>)
LiteralPrimitive(text) == Expr("LiteralPrimitive", text, <<>>)
PropertyRead(receiver, name) == Expr("PropertyRead", name, <<receiver>>)
SafePropertyRead(receiver, name) == Expr("SafePropertyRead", name, <<receiver>>)
Binary(op, left, right) == Expr("Binary", op, <<left, right>>)
Conditional(cond, yes, no) == Expr("Conditional", <<>>, <<cond, yes, no>>)
MethodCall(receiver, name, args) == Expr("MethodCall", name, <<receiver>> \o args)
FunctionCall(target, args) == Expr("FunctionCall", <<>>, <<target>> \o args)
KeyedRead(obj, key) == Expr("KeyedRead", <<>>, <<obj, key>>)
PrefixNot(expression) == Expr("PrefixNot", <<>>, <<expression>>)
BindingPipe(exp, name, args) == Expr("BindingPipe", name, <<exp>> \o args)
\* a chain of two expressions
Chain(first, second) == Expr("Chain", <<>>, <<first, second>>)
Quote(text) == Expr("Quote", text, <<>>)

Lit(text) == [isChild |-> FALSE, lit |-> text, child |-> 0]
Child(i) == [isChild |-> TRUE, lit |-> <<>>, child |-> i]

RECURSIVE ArgList(_, _)
\* the children from..last separated by commas
ArgList(from, last) ==
  IF from > last THEN <<>>
  ELSE IF from = last THEN <<Child(from)>>
  ELSE <<Child(from), Lit(<<",">>)>> \o ArgList(from + 1, last)

\* The concrete syntax of one node: literal text interleaved with its children.
Shape(e) ==
  LET n == Len(e.args)
      withReceiver(rest) ==
        IF e.args[1].kind = "ImplicitReceiver" THEN <<Child(1)>> \o rest
        ELSE <<Child(1), Lit(<<".">>)>> \o rest
  IN CASE e.kind = "ImplicitReceiver" -> <<>>
       [] e.kind = "LiteralPrimitive" -> <<Lit(e.name)>>
       [] e.kind = "Quote" -> <<Lit(e.name)>>
       [] e.kind = "Chain" -> <<Child(1), Lit(<<";">>), Child(2)>>
       [] e.kind = "PropertyRead" -> withReceiver(<<Lit(e.name)>>)
       [] e.kind = "SafePropertyRead" -> <<Child(1), Lit(<<"?", ".">>), Lit(e.name)>>
       [] e.kind = "Binary" -> <<Child(1), Lit(e.name), Child(2)>>
       [] e.kind = "Conditional" ->
            <<Child(1), Lit(<<"?">>), Child(2), Lit(<<":">>), Child(3)>>
       [] e.kind = "MethodCall" ->
            withReceiver(<<Lit(e.name), Lit(<<"(">>)>> \o ArgList(2, n) \o <<Lit(<<")">>)>>)
       [] e.kind = "FunctionCall" ->
            <<Child(1), Lit(<<"(">>)>> \o ArgList(2, n) \o <<Lit(<<")">>)>>
       [] e.kind = "KeyedRead" -> <<Child(1), Lit(<<"[">>), Child(2), Lit(<<"]">>)>>
       [] e.kind = "PrefixNot" -> <<Lit(<<"!">>), Child(1)>>
       [] e.kind = "BindingPipe" ->
            <<Child(1), Lit(<<"|">>), Lit(e.name)>>
              \o (IF n > 1 THEN <<Lit(<<":">>)>> \o ArgList(2, n) ELSE <<>>)

RECURSIVE ExprSource(_)
ExprSource(e) ==
  LET shape == Shape(e)
  IN Concat([i \in 1..Len(shape) |->
               IF shape[i].isChild THEN ExprSource(e.args[shape[i].child])
               ELSE shape[i].lit])

Span(start, end) == [start |-> start, end |-> end]

RECURSIVE ParseExpr(_, _)
RECURSIVE ParseChildren(_, _, _, _)
\* the children of e named by shape[i..], the text of shape[i] starting at offset
ParseChildren(e, shape, i, offset) ==
  IF i > Len(shape) THEN <<>>
  ELSE IF shape[i].isChild THEN
    LET child == e.args[shape[i].child]
    IN <<ParseExpr(child, offset)>>
         \o ParseChildren(e, shape, i + 1, offset + Len(ExprSource(child)))
  ELSE ParseChildren(e, shape, i + 1, offset + Len(shape[i].lit))

\* The AST of expression e whose text starts at offset of the parsed text.
ParseExpr(e, offset) ==
  [kind |-> e.kind, name |-> e.name,
   span |-> Span(offset, offset + Len(ExprSource(e))),
   args |-> ParseChildren(e, Shape(e), 1, offset)]

(***************************************************************************)
(* ExpressionVisitor (template.ts:50-166).  A member of the returned array *)
(* is an Entity, or itself an array (visitFunctionCall does not spread     *)
(* what its children return).                                              *)
(***************************************************************************)
Entity(name, span) == [isArray |-> FALSE, name |-> name, span |-> span, items |-> <<>>]
ArrayMember(items) ==
  [isArray |-> TRUE, name |-> <<>>, span |-> Span(0, 0), items |-> items]

RECURSIVE ExpressionVisit(_)
RECURSIVE ExpressionVisitAll(_)
ExpressionVisitAll(asts) ==
  IF asts = <<>> THEN <<>>
  ELSE ExpressionVisit(Head(asts)) \o ExpressionVisitAll(Tail(asts))

visitBinary(ast) == ExpressionVisit(ast.args[1]) \o ExpressionVisit(ast.args[2])

visitChain(ast) == ExpressionVisitAll(ast.args)

visitConditional(ast) ==
  ExpressionVisit(ast.args[1]) \o ExpressionVisit(ast.args[2])
    \o ExpressionVisit(ast.args[3])

visitPipe(ast) == ExpressionVisit(ast.args[1]) \o ExpressionVisitAll(Tail(ast.args))

visitFunctionCall(ast) ==
  <<ArrayMember(ExpressionVisit(ast.args[1])),
    ArrayMember(ExpressionVisitAll(Tail(ast.args)))>>

visitInterpolation(ast) == ExpressionVisitAll(ast.args)

visitKeyedRead(ast) == ExpressionVisit(ast.args[1]) \o ExpressionVisit(ast.args[2])

visitMethodCall(ast) ==
  ExpressionVisit(ast.args[1]) \o ExpressionVisitAll(Tail(ast.args))

visitPrefixNot(ast) == ExpressionVisit(ast.args[1])

\* the entity of the read put before those of its receiver
visitPropertyRead_ReadFirst(ast) ==
  <<Entity(ast.name, ast.span)>> \o ExpressionVisit(ast.args[1])

visitPropertyRead(ast) ==
  ExpressionVisit(ast.args[1]) \o <<Entity(ast.name, ast.span)>>

visitSafePropertyRead(ast) == ExpressionVisit(ast.args[1])

ExpressionVisit(ast) ==
  CASE ast.kind = "Binary" -> visitBinary(ast)
    [] ast.kind = "Chain" -> visitChain(ast)
    [] ast.kind = "Conditional" -> visitConditional(ast)
    [] ast.kind = "BindingPipe" -> visitPipe(ast)
    [] ast.kind = "FunctionCall" -> visitFunctionCall(ast)
    [] ast.kind = "Interpolation" -> visitInterpolation(ast)
    [] ast.kind = "KeyedRead" -> visitKeyedRead(ast)
    [] ast.kind = "MethodCall" -> visitMethodCall(ast)
    [] ast.kind = "PrefixNot" -> visitPrefixNot(ast)
    [] ast.kind = "PropertyRead" -> visitPropertyRead(ast)
    [] ast.kind = "SafePropertyRead" -> visitSafePropertyRead(ast)
    [] ast.kind \in {"ImplicitReceiver", "LiteralPrimitive", "Quote"} -> <<>>

(***************************************************************************)
(* Template nodes.  A template is written as a tree of nodes; the template *)
(* parser turns its source text into the r3 AST: the same tree with a      *)
(* sourceSpan on every node and a parsed expression in every bound node.   *)
(***************************************************************************)
Node(kind, tagName, name, text, parts, attributes, children, references, variables) ==
  [kind |-> kind, tagName |-> tagName, name |-> name, text |-> text, parts |-> parts,
   attributes |-> attributes, children |-> children, references |-> references,
   variables |-> variables]

LitPart(text) == [isExpr |-> FALSE, lit |-> text, expr |-> ImplicitReceiver]
ExprPart(e) == [isExpr |-> TRUE, lit |-> <<>>, expr |-> e]

Element(name, attributes, children, references) ==
  Node("Element", <<>>, name, <<>>, <<>>, attributes, children, references, <<>>)
Template(tagName, attributes, children, references, variables) ==
  Node("Template", tagName, <<>>, <<>>, <<>>, attributes, children, references, variables)
Text(text) == Node("Text", <<>>, <<>>, text, <<>>, <<>>, <<>>, <<>>, <<>>)
BoundText(parts) == Node("BoundText", <<>>, <<>>, <<>>, parts, <<>>, <<>>, <<>>, <<>>)
Content == Node("Content", <<>>, <<>>, <<>>, <<>>, <<>>, <<>>, <<>>, <<>>)
Icu(text) == Node("Icu", <<>>, <<>>, text, <<>>, <<>>, <<>>, <<>>, <<>>)
TextAttribute(name, text) ==
  Node("TextAttribute", <<>>, name, text, <<>>, <<>>, <<>>, <<>>, <<>>)
BoundAttribute(name, e) ==
  Node("BoundAttribute", <<>>, name, <<>>, <<ExprPart(e)>>, <<>>, <<>>, <<>>, <<>>)
BoundEvent(name, e) ==
  Node("BoundEvent", <<>>, name, <<>>, <<ExprPart(e)>>, <<>>, <<>>, <<>>, <<>>)
Reference(name) == Node("Reference", <<>>, name, <<>>, <<>>, <<>>, <<>>, <<>>, <<>>)
Variable(name) == Node("Variable", <<>>, name, <<>>, <<>>, <<>>, <<>>, <<>>, <<>>)

PartSource(part) ==
  IF part.isExpr THEN <<"{", "{">> \o ExprSource(part.expr) \o <<"}", "}">>
  ELSE part.lit

NG_CONTENT ==
  <<"<", "n", "g", "-", "c", "o", "n", "t", "e", "n", "t", ">",
    "<", "/", "n", "g", "-", "c", "o", "n", "t", "e", "n", "t", ">">>

RECURSIVE NodeSource(_)
RECURSIVE ListSource(_, _)
\* the source of every node of the list, each after the separator
ListSource(nodes, separator) ==
  IF nodes = <<>> THEN <<>>
  ELSE separator \o NodeSource(Head(nodes)) \o ListSource(Tail(nodes), separator)

TagName(n) == IF n.kind = "Template" THEN n.tagName ELSE n.name

NodeSource(n) ==
  CASE n.kind = "Text" -> n.text
    [] n.kind = "Icu" -> n.text
    [] n.kind = "BoundText" -> Concat([i \in 1..Len(n.parts) |-> PartSource(n.parts[i])])
    [] n.kind = "Content" -> NG_CONTENT
    [] n.kind = "TextAttribute" -> n.name \o <<"=", "\"">> \o n.text \o <<"\"">>
    [] n.kind = "BoundAttribute" ->
         <<"[">> \o n.name \o <<"]", "=", "\"">> \o ExprSource(n.parts[1].expr) \o <<"\"">>
    [] n.kind = "BoundEvent" ->
         <<"(">> \o n.name \o <<")", "=", "\"">> \o ExprSource(n.parts[1].expr) \o <<"\"">>
    [] n.kind = "Reference" -> <<"#">> \o n.name
    [] n.kind = "Variable" -> <<"l", "e", "t", "-">> \o n.name
    [] n.kind \in {"Element", "Template"} ->
         <<"<">> \o TagName(n)
           \o ListSource(n.attributes, <<" ">>) \o ListSource(n.references, <<" ">>)
           \o ListSource(n.variables, <<" ">>) \o <<">">>
           \o ListSource(n.children, <<>>) \o <<"<", "/">> \o TagName(n) \o <<">">>

RECURSIVE CollapseWhitespace(_)
\* The template parser replaces every run of whitespace by one space before
\* it parses the expressions of a text node.
CollapseWhitespace(text) ==
  IF text = <<>> THEN <<>>
  ELSE IF Head(text) \in Whitespace THEN
    <<" ">> \o CollapseWhitespace(SubSeq(text, ScanWhile(text, 1, Whitespace), Len(text)))
  ELSE <<Head(text)>> \o CollapseWhitespace(Tail(text))

NoAst == [kind |-> "None", name |-> <<>>, span |-> Span(0, 0), args |-> <<>>]

\* The value of a bound text node: an Interpolation whose expressions carry
\* spans relative to the whitespace-collapsed text of the node.
ParseInterpolation(parts) ==
  LET exprAt(i) ==
        LET before == Concat([j \in 1..(i - 1) |-> PartSource(parts[j])]) \o <<"{", "{">>
        IN ParseExpr(parts[i].expr, Len(CollapseWhitespace(before)))
      indices == SelectSeq([i \in 1..Len(parts) |-> i], LAMBDA i : parts[i].isExpr)
  IN [kind |-> "Interpolation", name |-> <<>>,
      span |-> Span(0, Len(CollapseWhitespace(Concat([j \in 1..Len(parts) |->
                                                        PartSource(parts[j])])))),
      args |-> [k \in 1..Len(indices) |-> exprAt(indices[k])]]

RECURSIVE ParseNode(_, _)
RECURSIVE ParseList(_, _, _)
\* the nodes of the list, each after a separator of the given length
ParseList(nodes, offset, gap) ==
  IF nodes = <<>> THEN <<>>
  ELSE <<ParseNode(Head(nodes), offset + gap)>>
         \o ParseList(Tail(nodes), offset + gap + Len(NodeSource(Head(nodes))), gap)

ListLength(nodes, gap) == Len(ListSource(nodes, [i \in 1..gap |-> " "]))

\* The r3 AST of node n whose source starts at the given offset of the file.
ParseNode(n, offset) ==
  LET attrsAt == offset + 1 + Len(TagName(n))
      refsAt == attrsAt + ListLength(n.attributes, 1)
      varsAt == refsAt + ListLength(n.references, 1)
      childrenAt == varsAt + ListLength(n.variables, 1) + 1
  IN [kind |-> n.kind, tagName |-> n.tagName, name |-> n.name,
      sourceSpan |-> Span(offset, offset + Len(NodeSource(n))),
      value |-> CASE n.kind = "BoundText" -> ParseInterpolation(n.parts)
                  [] n.kind \in {"BoundAttribute", "BoundEvent"} ->
                       ParseExpr(n.parts[1].expr, 0)
                  [] OTHER -> NoAst,
      attributes |-> ParseList(n.attributes, attrsAt, 1),
      references |-> ParseList(n.references, refsAt, 1),
      variables |-> ParseList(n.variables, varsAt, 1),
      children |-> ParseList(n.children, childrenAt, 0)]

TEST_FILE == "TEST"

\* parseTemplate(template, TEST_FILE): the nodes and the file they came from
ParseTemplate(nodes) ==
  [nodes |-> ParseList(nodes, 0, 0),
   file |-> [content |-> ListSource(nodes, <<>>), url |-> TEST_FILE]]

(***************************************************************************)
(* Span Correction (template.ts:194-210)                                   *)
(***************************************************************************)
IsIdentifierToken(token) == token.type = "Identifier"

RECURSIVE CorrectSpans_Shifted(_, _, _)
\* every span moved by the offset of its token, wherever the span was
CorrectSpans_Shifted(entities, lexedIdentifiers, index) ==
  IF index > Len(entities) THEN [threw |-> "none", entities |-> entities]
  ELSE IF index > Len(lexedIdentifiers)
    THEN [threw |-> "TypeError", entities |-> entities]
  ELSE IF entities[index].isArray
          \/ entities[index].name # lexedIdentifiers[index].strValue
    THEN [threw |-> "Error", entities |-> entities]
  ELSE
    CorrectSpans_Shifted(
      [entities EXCEPT ![index].span =
                         Span(@.start + lexedIdentifiers[index].index,
                              @.end + lexedIdentifiers[index].index)],
      lexedIdentifiers, index + 1)

RECURSIVE CorrectSpans(_, _, _)
\* entities.forEach((entity, index) => ...) from the given index on
CorrectSpans(entities, lexedIdentifiers, index) ==
  IF index > Len(entities) THEN [threw |-> "none", entities |-> entities]
  ELSE IF index > Len(lexedIdentifiers)
    THEN [threw |-> "TypeError", entities |-> entities]
  ELSE IF entities[index].isArray
          \/ entities[index].name # lexedIdentifiers[index].strValue
    THEN [threw |-> "Error", entities |-> entities]
  ELSE
    LET entity == entities[index]
        startOffset == lexedIdentifiers[index].index - entity.span.start
        moved == [entity EXCEPT !.span = Span(entity.span.start + startOffset,
                                              entity.span.end + startOffset)]
    IN CorrectSpans([entities EXCEPT ![index] = moved], lexedIdentifiers, index + 1)

setRealExpressionSpan(entities, currentNode, file) ==
  LET localSpan == currentNode.sourceSpan
      lexedIdentifiers ==
        SelectSeq(Tokenize(Substring(file.content, localSpan.start, localSpan.end), 1),
                  IsIdentifierToken)
  IN CorrectSpans(entities, lexedIdentifiers, 1)

(***************************************************************************)
(* The span of an entity is the span object of its AST node (span:         *)
(* ast.span, template.ts:139-142), so what setRealExpressionSpan writes to *)
(* entity.span is written to the AST.  A span object is named by the       *)
(* address of its node in the expression.                                  *)
(***************************************************************************)
RECURSIVE Labelled(_, _)
\* the expression with the address of every node in the place of its span
Labelled(ast, address) ==
  [ast EXCEPT !.span = address,
              !.args = [i \in 1..Len(ast.args) |->
                          Labelled(ast.args[i], Append(address, i))]]

RECURSIVE WithSpanAt(_, _, _)
\* the expression once span is written to the span object at address
WithSpanAt(ast, address, span) ==
  IF address = <<>> THEN [ast EXCEPT !.span = span]
  ELSE [ast EXCEPT !.args[Head(address)] = WithSpanAt(@, Tail(address), span)]

RECURSIVE WithSpansOf(_, _, _, _)
\* the expression once the spans of the entities k.. are written to the
\* span objects they share with it
WithSpansOf(ast, entities, spanObjects, k) ==
  IF k > Len(entities) THEN ast
  ELSE IF entities[k].isArray THEN WithSpansOf(ast, entities, spanObjects, k + 1)
  ELSE WithSpansOf(WithSpanAt(ast, spanObjects[k].span, entities[k].span),
                   entities, spanObjects, k + 1)

\* the expression of a bound node after addIdentifiers has run on it
CorrectedValue(currentNode, file) ==
  WithSpansOf(currentNode.value,
              setRealExpressionSpan(ExpressionVisit(currentNode.value), currentNode,
                                    file).entities,
              ExpressionVisit(Labelled(currentNode.value, <<>>)),
              1)

RECURSIVE WithValueAt(_, _, _)
\* the nodes once value is the expression of the node at the address path
WithValueAt(nodes, path, value) ==
  LET i == Head(path)[2]
      rest == Tail(path)
  IN IF Len(path) = 1 THEN [nodes EXCEPT ![i].value = value]
     ELSE CASE rest[1][1] = "attributes" ->
                 [nodes EXCEPT ![i].attributes = WithValueAt(@, rest, value)]
            [] rest[1][1] = "children" ->
                 [nodes EXCEPT ![i].children = WithValueAt(@, rest, value)]
            [] rest[1][1] = "references" ->
                 [nodes EXCEPT ![i].references = WithValueAt(@, rest, value)]
            [] rest[1][1] = "variables" ->
                 [nodes EXCEPT ![i].variables = WithValueAt(@, rest, value)]

(***************************************************************************)
(* TemplateVisitor (template.ts:216-298).  A visitor is the record of its  *)
(* fields and of the calls of visit still to be made or to be returned     *)
(* from; a task names its node by the node itself and by its address in    *)
(* the template.                                                           *)
(***************************************************************************)
Task(op, node, path) == [op |-> op, node |-> node, path |-> path]

\* the nodes visited from the last to the first
VisitAllTasks_Backwards(nodes, path, field) ==
  [i \in 1..Len(nodes) |->
     Task("visit", nodes[Len(nodes) + 1 - i], Append(path, <<field, Len(nodes) + 1 - i>>))]

\* visitAll(nodes): one visit per node, in order
VisitAllTasks(nodes, path, field) ==
  [i \in 1..Len(nodes) |-> Task("visit", nodes[i], Append(path, <<field, i>>))]

FrameName(node) ==
  IF node.tagName # <<>> THEN node.tagName ELSE node.name

\* a visit that pushes no frame
PushContext_Skipped(ctx, node) == ctx

PushContext(ctx, node) ==
  Append(ctx, [name |-> FrameName(node),
               span |-> Span(node.sourceSpan.start, node.sourceSpan.end)])

\* a visit that does not pop its frame
PopContext_Kept(ctx) == ctx

PopContext(ctx) == SubSeq(ctx, 1, Len(ctx) - 1)

LocalScope(ctx) ==
  LET named == SelectSeq(ctx, LAMBDA frame : frame.name # <<>>)
  IN [i \in 1..Len(named) |-> named[i].name]

\* the two errors of addIdentifiers are told apart: "Error" is thrown by
\* setRealExpressionSpan, "ErrorOutsideNode" is the impossible state of
\* identifiers added with an empty context
addIdentifiers(v, visitedEntities, currentNode, path) ==
  LET corrected == setRealExpressionSpan(visitedEntities, currentNode, v.file)
      localScope == LocalScope(v.context)
      localOffset == v.context[Len(v.context)].span.start
      discoveredIdentifiers ==
        [i \in 1..Len(corrected.entities) |->
           [name |-> corrected.entities[i].name,
            scope |-> localScope,
            span |-> Span(localOffset + corrected.entities[i].span.start,
                          localOffset + corrected.entities[i].span.end),
            file |-> v.file.url]]
  IN IF corrected.threw # "none" THEN [v EXCEPT !.visiting = corrected.threw]
     ELSE IF Len(v.context) = 0 THEN [v EXCEPT !.visiting = "ErrorOutsideNode"]
     ELSE [v EXCEPT !.identifiers = @ \o discoveredIdentifiers,
                    !.origin = @ \o [i \in 1..Len(discoveredIdentifiers) |-> path]]

visitElement(v, element, path) ==
  [v EXCEPT !.agenda = VisitAllTasks(element.attributes, path, "attributes")
                         \o VisitAllTasks(element.children, path, "children")
                         \o VisitAllTasks(element.references, path, "references")
                         \o @]

visitTemplate(v, tmpl, path) ==
  [v EXCEPT !.agenda = VisitAllTasks(tmpl.attributes, path, "attributes")
                         \o VisitAllTasks(tmpl.children, path, "children")
                         \o VisitAllTasks(tmpl.references, path, "references")
                         \o VisitAllTasks(tmpl.variables, path, "variables")
                         \o @]

visitBoundAttribute(v, attribute, path) ==
  addIdentifiers(v, ExpressionVisit(attribute.value), attribute, path)

visitBoundText(v, text, path) ==
  addIdentifiers(v, ExpressionVisit(text.value), text, path)

\* a bound event indexed like a bound attribute
visitBoundEvent_Indexed(v, attribute, path) ==
  addIdentifiers(v, ExpressionVisit(attribute.value), attribute, path)

visitBoundEvent(v, attribute, path) == v

\* visitContent, visitVariable, visitReference, visitTextAttribute, visitText, visitIcu
visitStatic(v, node, path) == v

StaticKinds == {"Content", "Variable", "Reference", "TextAttribute", "Text", "Icu"}

\* node.visit(this)
Dispatch(v, node, path) ==
  CASE node.kind = "Element" -> visitElement(v, node, path)
    [] node.kind = "Template" -> visitTemplate(v, node, path)
    [] node.kind = "BoundAttribute" -> visitBoundAttribute(v, node, path)
    [] node.kind = "BoundText" -> visitBoundText(v, node, path)
    [] node.kind = "BoundEvent" -> visitBoundEvent(v, node, path)
    [] node.kind \in StaticKinds -> visitStatic(v, node, path)

\* visit(node) up to the return of node.visit(this): the frame is pushed, the
\* node's own method runs, and the pop is left to do once the visits it
\* asked for have returned.
visit(v, task) ==
  LET entered == [v EXCEPT !.context = PushContext(@, task.node),
                           !.agenda = <<Task("leave", task.node, task.path)>> \o Tail(@)]
  IN Dispatch(entered, task.node, task.path)

\* the end of visit(node): this.context.pop()
leave(v) == [v EXCEPT !.context = PopContext(@), !.agenda = Tail(@)]

\* new TemplateVisitor(); visitor.visitAll(template)
NewVisitor(parsed) ==
  [file |-> parsed.file, agenda |-> VisitAllTasks(parsed.nodes, <<>>, "nodes"),
   context |-> <<>>, identifiers |-> <<>>, origin |-> <<>>, visiting |-> "visiting"]

VisitorStep(v) ==
  IF v.agenda = <<>> THEN [v EXCEPT !.visiting = "returned"]
  ELSE IF Head(v.agenda).op = "visit" THEN visit(v, Head(v.agenda))
  ELSE leave(v)

RECURSIVE RunVisitor(_)
RunVisitor(v) == IF v.visiting # "visiting" THEN v ELSE RunVisitor(VisitorStep(v))

\* getTemplateIdentifiers(template): the visitor once the call has returned
\* (visiting = "returned", the result in identifiers) or thrown
getTemplateIdentifiers(parsed) == RunVisitor(NewVisitor(parsed))

(***************************************************************************)
(* The templates the indexer is run on                                     *)
(***************************************************************************)
MaxChildren == 2

SeqUpTo(S, n) == UNION {[1..k -> S] : k \in 0..n}

S_div == <<"d", "i", "v">>
S_span == <<"s", "p", "a", "n">>
S_ng_template == <<"n", "g", "-", "t", "e", "m", "p", "l", "a", "t", "e">>
S_foo == <<"f", "o", "o">>
S_bar == <<"b", "a", "r">>
S_click == <<"c", "l", "i", "c", "k">>
S_icu == <<"{", "n", ",", "s", "e", "l", "e", "c", "t", ",", "x", "{", "y", "}", "}">>

E_foo == PropertyRead(ImplicitReceiver, S_foo)
E_bar == PropertyRead(ImplicitReceiver, S_bar)
E_a_b == PropertyRead(PropertyRead(ImplicitReceiver, <<"a">>), <<"b">>)
E_m_foo == MethodCall(ImplicitReceiver, <<"m">>, <<E_foo>>)

\* {{foo}}
BT_foo == BoundText(<<ExprPart(E_foo)>>)
\* {{a.b}}
BT_chain == BoundText(<<ExprPart(E_a_b)>>)
\* x {{foo}}
BT_after_text == BoundText(<<LitPart(<<"x", " ">>), ExprPart(E_foo)>>)
\* \n\n   {{foo}}\n   {{bar}}
BT_whitespace ==
  BoundText(<<LitPart(<<"\n", "\n", " ", " ", " ">>), ExprPart(E_foo),
              LitPart(<<"\n", " ", " ", " ">>), ExprPart(E_bar)>>)

\* {{foo.bar()}}
BT_method == BoundText(<<ExprPart(MethodCall(E_foo, S_bar, <<>>))>>)

Decor(attributes, references) == [attributes |-> attributes, references |-> references]

\* <span>..</span> around at most one leaf, and
\* <ng-template [foo]="foo" #r let-v>..</ng-template> around at most {{foo}}
InnerLeaves == {Text(<<"x">>), BT_foo, BT_chain, BT_after_text, BT_method}
Inner ==
  {Element(S_span, <<>>, kids, <<>>) : kids \in SeqUpTo(InnerLeaves, 1)}
    \cup {Template(S_ng_template, <<BoundAttribute(S_foo, E_foo)>>, kids,
                   <<Reference(<<"r">>)>>, <<Variable(<<"v">>)>>)
            : kids \in SeqUpTo({BT_foo}, 1)}

\* <div ..>..</div> around at most MaxChildren nodes
MidLeaves == {Text(<<"x">>), BT_whitespace, Content, Icu(S_icu)}
OuterDecor ==
  {Decor(<<>>, <<>>),
   Decor(<<TextAttribute(<<"i", "d">>, <<"x">>), BoundEvent(S_click, E_foo)>>,
         <<Reference(<<"r">>)>>),
   Decor(<<BoundEvent(S_click, E_m_foo)>>, <<>>),
   Decor(<<BoundAttribute(<<"a">>, E_bar)>>, <<>>)}
Outer ==
  {Element(S_div, d.attributes, kids, d.references)
     : d \in OuterDecor, kids \in SeqUpTo(Inner \cup MidLeaves, MaxChildren)}

Templates ==
  {<<o>> : o \in Outer} \cup {<<l>> : l \in MidLeaves \cup InnerLeaves}

(***************************************************************************)
(* The indexer as a state machine: one traversal of one parsed template.   *)
(***************************************************************************)
Visitor ==
  [file |-> template.file, agenda |-> agenda, context |-> context,
   identifiers |-> identifiers, origin |-> origin, visiting |-> visiting]

SetVisitor(v) ==
  /\ agenda' = v.agenda
  /\ context' = v.context
  /\ identifiers' = v.identifiers
  /\ origin' = v.origin
  /\ visiting' = v.visiting
  /\ UNCHANGED firstCall

AtVisitOf(kinds) ==
  /\ visiting = "visiting"
  /\ agenda # <<>>
  /\ Head(agenda).op = "visit"
  /\ Head(agenda).node.kind \in kinds

IdleIndexer ==
  /\ template = [nodes |-> <<>>, file |-> [content |-> <<>>, url |-> TEST_FILE]]
  /\ agenda = <<>>
  /\ context = <<>>
  /\ identifiers = <<>>
  /\ origin = <<>>
  /\ visiting = "idle"
  /\ firstCall = [visiting |-> "idle", identifiers |-> <<>>, nodes |-> <<>>]

IdleAnalysis ==
  /\ components = <<>>
  /\ calls = <<>>
  /\ phase = "idle"
  /\ cursor = 0
  /\ componentMap = <<>>
  /\ pending = <<>>
  /\ analyses = <<>>
  /\ returned = <<>>

IdleRepair ==
  /\ resolved = <<>>
  /\ firstFix = <<>>
  /\ secondFix = <<>>
  /\ stage = "idle"

IdleSchematic ==
  /\ resolvedTemplates = <<>>
  /\ tree = <<>>
  /\ fixesByFile = <<>>
  /\ progress = "idle"
  /\ at = 0
  /\ collectedFixes = <<>>
  /\ logged = <<>>

IdleExpression ==
  /\ exprAst = <<>>
  /\ exprEntities = <<>>
  /\ exprVisited = FALSE

IdlePrinter ==
  /\ printed = <<>>
  /\ buffer = <<>>
  /\ indent = <<>>
  /\ printing = <<>>
  /\ printer = "idle"

IndexerInit ==
  /\ template \in {ParseTemplate(t) : t \in Templates}
  /\ agenda = NewVisitor(template).agenda
  /\ context = <<>>
  /\ identifiers = <<>>
  /\ origin = <<>>
  /\ visiting = "visiting"
  /\ firstCall = [visiting |-> "none", identifiers |-> <<>>, nodes |-> template.nodes]
  /\ IdleAnalysis
  /\ IdleRepair
  /\ IdleSchematic
  /\ IdleExpression
  /\ IdlePrinter

VisitElement ==
  /\ AtVisitOf({"Element"})
  /\ SetVisitor(visit(Visitor, Head(agenda)))
  /\ UNCHANGED template
  /\ UNCHANGED <<analysisVars, repairVars, schematicVars, expressionVars, printerVars>>

VisitTemplate ==
  /\ AtVisitOf({"Template"})
  /\ SetVisitor(visit(Visitor, Head(agenda)))
  /\ UNCHANGED template
  /\ UNCHANGED <<analysisVars, repairVars, schematicVars, expressionVars, printerVars>>

VisitBoundText ==
  /\ AtVisitOf({"BoundText"})
  /\ SetVisitor(visit(Visitor, Head(agenda)))
  /\ template' = [template EXCEPT
                    !.nodes = WithValueAt(@, Head(agenda).path,
                                          CorrectedValue(Head(agenda).node,
                                                         template.file))]
  /\ UNCHANGED <<analysisVars, repairVars, schematicVars, expressionVars, printerVars>>

VisitBoundAttribute ==
  /\ AtVisitOf({"BoundAttribute"})
  /\ SetVisitor(visit(Visitor, Head(agenda)))
  /\ template' = [template EXCEPT
                    !.nodes = WithValueAt(@, Head(agenda).path,
                                          CorrectedValue(Head(agenda).node,
                                                         template.file))]
  /\ UNCHANGED <<analysisVars, repairVars, schematicVars, expressionVars, printerVars>>

VisitBoundEvent ==
  /\ AtVisitOf({"BoundEvent"})
  /\ SetVisitor(visit(Visitor, Head(agenda)))
  /\ UNCHANGED template
  /\ UNCHANGED <<analysisVars, repairVars, schematicVars, expressionVars, printerVars>>

VisitStatic ==
  /\ AtVisitOf(StaticKinds)
  /\ SetVisitor(visit(Visitor, Head(agenda)))
  /\ UNCHANGED template
  /\ UNCHANGED <<analysisVars, repairVars, schematicVars, expressionVars, printerVars>>

Leave ==
  /\ visiting = "visiting"
  /\ agenda # <<>>
  /\ Head(agenda).op = "leave"
  /\ SetVisitor(leave(Visitor))
  /\ UNCHANGED template
  /\ UNCHANGED <<analysisVars, repairVars, schematicVars, expressionVars, printerVars>>

ReturnIdentifiers ==
  /\ visiting = "visiting"
  /\ agenda = <<>>
  /\ SetVisitor(VisitorStep(Visitor))
  /\ UNCHANGED template
  /\ UNCHANGED <<analysisVars, repairVars, schematicVars, expressionVars, printerVars>>

\* getTemplateIdentifiers called once more on the same parsed template,
\* after the first call has returned or thrown
CallAgain ==
  /\ visiting # "visiting"
  /\ firstCall.visiting = "none"
  /\ firstCall' = [firstCall EXCEPT !.visiting = visiting, !.identifiers = identifiers]
  /\ agenda' = NewVisitor(template).agenda
  /\ context' = <<>>
  /\ identifiers' = <<>>
  /\ origin' = <<>>
  /\ visiting' = "visiting"
  /\ UNCHANGED template
  /\ UNCHANGED <<analysisVars, repairVars, schematicVars, expressionVars, printerVars>>

IndexerNext ==
  \/ VisitElement
  \/ VisitTemplate
  \/ VisitBoundText
  \/ VisitBoundAttribute
  \/ VisitBoundEvent
  \/ VisitStatic
  \/ Leave
  \/ ReturnIdentifiers
  \/ CallAgain

IndexerSpec == IndexerInit /\ [][IndexerNext]_vars

(***************************************************************************)
(* Properties of getTemplateIdentifiers                                    *)
(***************************************************************************)
NodeList(node, field) ==
  CASE field = "attributes" -> node.attributes
    [] field = "children" -> node.children
    [] field = "references" -> node.references
    [] field = "variables" -> node.variables

RECURSIVE PathNames(_, _)
\* the names of the named nodes met from nodes[Head(path)] down along path
PathNames(nodes, path) ==
  LET node == nodes[Head(path)[2]]
      own == IF FrameName(node) # <<>> THEN <<FrameName(node)>> ELSE <<>>
  IN IF Len(path) = 1 THEN own
     ELSE own \o PathNames(NodeList(node, path[2][1]), Tail(path))

RECURSIVE KindsIn(_)
\* the kinds of all nodes of the trees
KindsIn(nodes) ==
  IF nodes = <<>> THEN {}
  ELSE LET n == Head(nodes)
       IN {n.kind} \cup KindsIn(n.attributes) \cup KindsIn(n.children)
            \cup KindsIn(n.references) \cup KindsIn(n.variables)
            \cup KindsIn(Tail(nodes))

\* C1: the scope of every identifier is the sequence of the names of the named
\* nodes on the path from the top-level node to the node of its expression,
\* outer to inner, and holds no name of a node off that path.
C1_ScopeIsPath ==
  \A i \in 1..Len(identifiers) :
    identifiers[i].scope = PathNames(template.nodes, origin[i])

\* an identifier of the second child of the top-level element, found two
\* levels down after a sibling subtree with identifiers of its own was left
C1_Witness ==
  /\ visiting = "returned"
  /\ \E i, j \in 1..Len(identifiers) :
       /\ Len(origin[j]) = 3
       /\ origin[j][2] = <<"children", 1>>
       /\ Len(origin[i]) = 3
       /\ origin[i][2] = <<"children", 2>>
       /\ identifiers[i].scope = <<S_div, S_span>>
       /\ identifiers[j].scope = <<S_div, S_ng_template>>

\* C2: the source text between span.start and span.end of every identifier
\* is the identifier's name.
C2_SpanIsName ==
  \A i \in 1..Len(identifiers) :
    Substring(template.file.content, identifiers[i].span.start, identifiers[i].span.end)
      = identifiers[i].name

\* C3: a template with no bound text and no bound attribute yields no
\* identifier and no error, whatever its event handlers hold.
C3_StaticYieldsNothing ==
  KindsIn(template.nodes) \cap {"BoundText", "BoundAttribute"} = {}
    => identifiers = <<>> /\ visiting \in {"visiting", "returned"}

C3_Witness ==
  /\ visiting = "returned"
  /\ KindsIn(template.nodes) \cap {"BoundText", "BoundAttribute"} = {}
  /\ {"BoundEvent", "Element", "Text"} \subseteq KindsIn(template.nodes)
  /\ identifiers = <<>>

RECURSIVE NodeAt(_, _)
\* the node of the trees at the address path
NodeAt(nodes, path) ==
  IF Len(path) = 1 THEN nodes[Head(path)[2]]
  ELSE NodeAt(NodeList(nodes[Head(path)[2]], path[2][1]), Tail(path))

\* the names of the identifier tokens of the source text of a node
LexedNames(node, file) ==
  LET lexed == SelectSeq(Tokenize(Substring(file.content, node.sourceSpan.start,
                                            node.sourceSpan.end), 1),
                         IsIdentifierToken)
  IN [k \in 1..Len(lexed) |-> lexed[k].strValue]

\* the names of the entities the expression visitor finds in a bound node
EntityNames(node) ==
  LET entities == ExpressionVisit(node.value)
  IN [k \in 1..Len(entities) |-> entities[k].name]

\* C15: setRealExpressionSpan tolerates no disagreement between the lexed
\* identifier tokens and the entities of a node: an identifier is recorded
\* for a node only if the node's source text lexes to as many identifier
\* tokens as the node has entities, with the same names in the same order.
C15_NoDisagreementTolerated ==
  \A i \in 1..Len(identifiers) :
    LexedNames(NodeAt(template.nodes, origin[i]), template.file)
      = EntityNames(NodeAt(template.nodes, origin[i]))

\* C18: the identifiers are in document order: the starts of their spans
\* never decrease along the returned array.
C18_DocumentOrder ==
  \A i \in 1..(Len(identifiers) - 1) :
    identifiers[i].span.start <= identifiers[i + 1].span.start

\* a template was indexed whose identifiers come from an attribute of an
\* ng-template, from its child and from a later sibling, each further
\* down the source text than the one before
C18_Witness ==
  /\ visiting = "returned"
  /\ Len(identifiers) >= 3
  /\ \E i \in 1..(Len(identifiers) - 2) :
       /\ origin[i] # origin[i + 1]
       /\ origin[i + 1] # origin[i + 2]
       /\ origin[i][Len(origin[i])][1] = "attributes"
       /\ identifiers[i].span.start < identifiers[i + 1].span.start
       /\ identifiers[i + 1].span.start < identifiers[i + 2].span.start

\* C19: the context is never empty when identifiers are recorded, so the
\* error of identifiers added outside a node is never raised; its top frame
\* is the frame of the bound node whose identifiers are recorded.
C19_RecordedInsideOwnFrame ==
  [][/\ visiting' # "ErrorOutsideNode"
     /\ Len(identifiers') > Len(identifiers)
          => /\ context' # <<>>
             /\ context'[Len(context')]
                  = [name |-> FrameName(Head(agenda).node),
                     span |-> Span(Head(agenda).node.sourceSpan.start,
                                   Head(agenda).node.sourceSpan.end)]]_vars

\* the identifiers of a bound text two elements down were just recorded:
\* the visit has not returned yet and its frame is on top of two others
C19_Witness ==
  /\ visiting = "visiting"
  /\ agenda # <<>>
  /\ Head(agenda).op = "leave"
  /\ Head(agenda).node.kind = "BoundText"
  /\ identifiers # <<>>
  /\ origin[Len(origin)] = Head(agenda).path
  /\ Len(context) = 3
  /\ context[3].name = <<>>
  /\ context[3].span.start = Head(agenda).node.sourceSpan.start

\* C23: a second call of getTemplateIdentifiers on the same parsed
\* template ends as the first did and returns identifiers with the same
\* names, scopes and spans, although the first call has rewritten spans
\* of the AST in place.
C23_SameWhenRepeated ==
  (firstCall.visiting # "none" /\ visiting # "visiting")
    => /\ visiting = firstCall.visiting
       /\ identifiers = firstCall.identifiers

\* both calls have returned identifiers, and the AST the second call was
\* given is not the AST as parsed: the first call has moved spans in it
C23_Witness ==
  /\ firstCall.visiting = "returned"
  /\ visiting = "returned"
  /\ Len(identifiers) >= 2
  /\ template.nodes # firstCall.nodes

(***************************************************************************)
(* The analysis context (context.ts:49-56): components is a Set, read in   *)
(* insertion order.                                                        *)
(***************************************************************************)
MaxComponents == 2

NULL == "null"

addComponent(set, info) ==
  IF \E i \in 1..Len(set) : set[i] = info THEN set ELSE Append(set, info)

(***************************************************************************)
(* generateAnalysis (transform.ts:57-104).  An analysis object is named by *)
(* its index in analyses; 0 stands for undefined.                          *)
(***************************************************************************)
Names == {"A", "B", "X"}

\* no scope taken for a scope that uses nothing
UsedComponentsOf_EmptyForNull(scope) ==
  [isNull |-> FALSE,
   items |-> SelectSeq(scope.usedDirectives, LAMBDA dir : dir.isComponent)]

\* scope.getUsedDirectives().filter(dir => dir.isComponent), null without scope
UsedComponentsOf(scope) ==
  IF scope.bound
  THEN [isNull |-> FALSE,
        items |-> SelectSeq(scope.usedDirectives, LAMBDA dir : dir.isComponent)]
  ELSE [isNull |-> TRUE, items |-> <<>>]

\* the analysis object of the first pass (transform.ts:69-79)
NewAnalysis(component, found) ==
  [name |-> component.declaration.name,
   selector |-> component.selector,
   declaration |-> component.declaration,
   sourceFile |-> component.declaration.fileName,
   content |-> component.declaration.text,
   template |-> [identifiers |-> found, usedComponents |-> <<>>]]

\* a lookup that hands out a copy of the analysis object, not the object
\* a name keeps the first analysis set for it
MapSet_KeepFirst(map, name, analysis) ==
  IF map[name] # 0 THEN map ELSE [map EXCEPT ![name] = analysis]

\* componentMap.set(name, analysis)
MapSet(map, name, analysis) == [map EXCEPT ![name] = analysis]

MapGet_Copy(map, name) == IF map[name] = 0 THEN 0 ELSE 0 - map[name]

\* componentMap.get(name)
MapGet(map, name) == map[name]

\* a resolution that keeps the undefined results
ResolveUsages_Unfiltered(usedComponents, map) ==
  [k \in 1..Len(usedComponents) |-> MapGet(map, usedComponents[k].name)]

\* usedComponents.map(component => componentMap.get(component.name))
\*               .filter(cmp => cmp !== undefined)
ResolveUsages(usedComponents, map) ==
  SelectSeq([k \in 1..Len(usedComponents) |-> MapGet(map, usedComponents[k].name)],
            LAMBDA cmp : cmp # 0)

\* the analyses handed back last first
ReturnedAnalyses_Reversed(firstPass) ==
  [i \in 1..Len(firstPass) |-> firstPass[Len(firstPass) + 1 - i].analysis]

\* components.map(component => component.analysis)
ReturnedAnalyses(firstPass) == [i \in 1..Len(firstPass) |-> firstPass[i].analysis]

(***************************************************************************)
(* The registry and the generator as a state machine                       *)
(***************************************************************************)
Declaration(id, name, fileName) ==
  [id |-> id, name |-> name, fileName |-> fileName, text |-> "class " \o name \o " {};"]

Directive(name, isComponent) == [name |-> name, isComponent |-> isComponent]
NoScope == [bound |-> FALSE, usedDirectives |-> <<>>]
BoundScope(usedDirectives) == [bound |-> TRUE, usedDirectives |-> usedDirectives]

Scopes ==
  {NoScope,
   BoundScope(<<>>),
   BoundScope(<<Directive("B", FALSE)>>),
   BoundScope(<<Directive("A", TRUE)>>),
   BoundScope(<<Directive("B", TRUE)>>),
   BoundScope(<<Directive("B", TRUE), Directive("X", TRUE), Directive("A", TRUE)>>)}

\* <div>{{foo}}</div>
TemplateOfTest == ParseTemplate(<<Element(S_div, <<>>, <<BT_foo>>, <<>>)>>)
\* <div>x {{foo}}</div>
TemplateThatThrows == ParseTemplate(<<Element(S_div, <<>>, <<BT_after_text>>, <<>>)>>)

\* getTemplateIdentifiers(template) of the templates that get registered
TemplateIdentifiers ==
  [parsed \in {TemplateOfTest, TemplateThatThrows} |-> getTemplateIdentifiers(parsed)]

ComponentInfo(declaration, selector, parsed, scope) ==
  [declaration |-> declaration, selector |-> selector, template |-> parsed,
   scope |-> scope]

Declared ==
  {<<Declaration(1, "A", "a.ts"), "a-selector">>,
   <<Declaration(2, "B", "b.ts"), "b-selector">>,
   <<Declaration(3, "A", "other.ts"), NULL>>}

Infos ==
  {ComponentInfo(d[1], d[2], TemplateOfTest, scope) : d \in Declared, scope \in Scopes}
    \cup {ComponentInfo(Declaration(2, "B", "b.ts"), "b-selector", TemplateThatThrows,
                        NoScope)}

AnalysisInit ==
  /\ components = <<>>
  /\ calls = <<>>
  /\ phase = "populate"
  /\ cursor = 0
  /\ componentMap = [n \in Names |-> 0]
  /\ pending = <<>>
  /\ analyses = <<>>
  /\ returned = <<>>
  /\ IdleIndexer
  /\ IdleRepair
  /\ IdleSchematic
  /\ IdleExpression
  /\ IdlePrinter

\* context.addComponent(info)
AddComponent ==
  /\ phase = "populate"
  /\ Len(calls) < MaxComponents
  /\ \E info \in Infos :
       /\ components' = addComponent(components, info)
       /\ calls' = Append(calls, info)
  /\ UNCHANGED <<phase, cursor, componentMap, pending, analyses, returned>>
  /\ UNCHANGED <<indexerVars, repairVars, schematicVars, expressionVars, printerVars>>

\* the call of generateAnalysis(context)
GenerateAnalysis ==
  /\ phase = "populate"
  /\ phase' = "pass1"
  /\ cursor' = 1
  /\ UNCHANGED <<components, calls, componentMap, pending, analyses, returned>>
  /\ UNCHANGED <<indexerVars, repairVars, schematicVars, expressionVars, printerVars>>

\* one turn of context.components.map(component => ...) (transform.ts:60-89)
FirstPass ==
  /\ phase = "pass1"
  /\ cursor <= Len(components)
  /\ LET component == components[cursor]
         name == component.declaration.name
         usedComponents == UsedComponentsOf(component.scope)
         visitor == TemplateIdentifiers[component.template]
     IN IF visitor.visiting # "returned"
        THEN /\ phase' = "threw"
             /\ UNCHANGED <<cursor, componentMap, pending, analyses>>
        ELSE /\ analyses' = Append(analyses, NewAnalysis(component, visitor.identifiers))
             /\ componentMap' = MapSet(componentMap, name, Len(analyses) + 1)
             /\ pending' = Append(pending, [usedComponents |-> usedComponents,
                                            analysis |-> Len(analyses) + 1])
             /\ cursor' = cursor + 1
             /\ UNCHANGED phase
  /\ UNCHANGED <<components, calls, returned>>
  /\ UNCHANGED <<indexerVars, repairVars, schematicVars, expressionVars, printerVars>>

EndFirstPass ==
  /\ phase = "pass1"
  /\ cursor > Len(components)
  /\ phase' = "pass2"
  /\ cursor' = 1
  /\ UNCHANGED <<components, calls, componentMap, pending, analyses, returned>>
  /\ UNCHANGED <<indexerVars, repairVars, schematicVars, expressionVars, printerVars>>

\* one turn of components.forEach(component => ...) (transform.ts:94-101)
SecondPass ==
  /\ phase = "pass2"
  /\ cursor <= Len(pending)
  /\ LET component == pending[cursor]
         usedComponents == component.usedComponents
     IN IF ~usedComponents.isNull
        THEN analyses' =
               [analyses EXCEPT ![component.analysis].template.usedComponents =
                                  ResolveUsages(usedComponents.items, componentMap)]
        ELSE UNCHANGED analyses
  /\ cursor' = cursor + 1
  /\ UNCHANGED <<components, calls, phase, componentMap, pending, returned>>
  /\ UNCHANGED <<indexerVars, repairVars, schematicVars, expressionVars, printerVars>>

\* return components.map(component => component.analysis)
ReturnAnalysis ==
  /\ phase = "pass2"
  /\ cursor > Len(pending)
  /\ returned' = ReturnedAnalyses(pending)
  /\ phase' = "done"
  /\ UNCHANGED <<components, calls, cursor, componentMap, pending, analyses>>
  /\ UNCHANGED <<indexerVars, repairVars, schematicVars, expressionVars, printerVars>>

AnalysisNext ==
  \/ AddComponent
  \/ GenerateAnalysis
  \/ FirstPass
  \/ EndFirstPass
  \/ SecondPass
  \/ ReturnAnalysis

AnalysisSpec == AnalysisInit /\ [][AnalysisNext]_vars

\* generateAnalysis is synchronous: once called it runs until it returns or throws
AnalysisFairSpec ==
  /\ AnalysisSpec
  /\ WF_vars(FirstPass)
  /\ WF_vars(EndFirstPass)
  /\ WF_vars(SecondPass)
  /\ WF_vars(ReturnAnalysis)

(***************************************************************************)
(* Properties of the registry and of generateAnalysis                      *)
(***************************************************************************)
Range(seq) == {seq[i] : i \in 1..Len(seq)}

NameOf(i) == components[i].declaration.name

\* usedComponents of the i-th returned analysis
UsedBy(i) == analyses[returned[i]].template.usedComponents

\* the last registered component of that name
LastNamed(name) ==
  CHOOSE k \in 1..Len(components) :
    /\ NameOf(k) = name
    /\ \A l \in (k + 1)..Len(components) : NameOf(l) # name

IsRegistered(name) == \E k \in 1..Len(components) : NameOf(k) = name

\* the component references the scope of the i-th component reported, in order
ReportedBy(i) ==
  SelectSeq(components[i].scope.usedDirectives, LAMBDA dir : dir.isComponent)

\* an error of generateAnalysis comes from the identifiers of a template
ThrowsOnlyInTemplate ==
  phase = "threw"
    => TemplateIdentifiers[components[cursor].template].visiting # "returned"

\* C4: the returned sequence has one analysis per registered record, in
\* registration order, each with the name, selector and declaration of its record.
C4_OneAnalysisPerRecord ==
  phase = "done" =>
    /\ Len(returned) = Len(components)
    /\ \A i, j \in 1..Len(returned) : i # j => returned[i] # returned[j]
    /\ \A i \in 1..Len(returned) :
         /\ analyses[returned[i]].name = NameOf(i)
         /\ analyses[returned[i]].selector = components[i].selector
         /\ analyses[returned[i]].declaration = components[i].declaration

\* two registered components with one display name and different declarations
C4_Witness ==
  /\ phase = "done"
  /\ Len(returned) = 2
  /\ NameOf(1) = NameOf(2)
  /\ components[1].declaration # components[2].declaration

\* the i-th component uses the j-th, which alone bears its name
Uses(i, j) ==
  /\ \E k \in 1..Len(ReportedBy(i)) : ReportedBy(i)[k].name = NameOf(j)
  /\ \A l \in 1..Len(components) : l # j => NameOf(l) # NameOf(j)

UsageByReference ==
  /\ \A i \in 1..Len(returned) : Range(UsedBy(i)) \subseteq Range(returned)
  /\ \A i, j \in 1..Len(returned) :
       Uses(i, j) /\ Uses(j, i) =>
         returned[j] \in Range(UsedBy(i)) /\ returned[i] \in Range(UsedBy(j))

\* C5: a call of generateAnalysis ends, on cyclic and self-referential
\* registries too, and when it returns every entry of every usedComponents
\* is one of the returned records: of two components that use each other,
\* each has the other's record itself.
C5_TerminatesByReference ==
  (phase = "pass1") ~> (phase = "threw" \/ (phase = "done" /\ UsageByReference))

\* A uses B and B uses A
C5_Witness ==
  /\ phase = "done"
  /\ \E i, j \in 1..Len(returned) :
       /\ i # j
       /\ Uses(i, j)
       /\ Uses(j, i)
       /\ returned[j] \in Range(UsedBy(i))
       /\ returned[i] \in Range(UsedBy(j))

\* C6: a reference to a name that no registered component bears is dropped
\* and raises nothing; the references that resolve are kept in the order of
\* the scope's report, for every component.
C6_UnresolvedDropped ==
  /\ ThrowsOnlyInTemplate
  /\ phase = "done" =>
       \A i \in 1..Len(returned) :
         LET kept == SelectSeq(ReportedBy(i), LAMBDA dir : IsRegistered(dir.name))
         IN UsedBy(i) = [k \in 1..Len(kept) |-> returned[LastNamed(kept[k].name)]]

\* a scope that reports B, X and A where only A and B are registered
C6_Witness ==
  /\ phase = "done"
  /\ \E i \in 1..Len(returned) :
       /\ Len(ReportedBy(i)) = 3
       /\ ~IsRegistered("X")
       /\ Len(UsedBy(i)) = 2
       /\ UsedBy(i)[1] # UsedBy(i)[2]

\* C7 as claimed: the returned analysis of a component without scope differs
\* in its used components from that of a component whose scope uses none.
C7_UnknownDistinguishable ==
  phase = "done" =>
    \A i, j \in 1..Len(returned) :
      (~components[i].scope.bound /\ components[j].scope.bound /\ ReportedBy(j) = <<>>)
        => UsedBy(i) # UsedBy(j)

\* C7 as amended: the missing scope raises nothing; it is the null
\* usedComponents of the first pass, which a scope that uses nothing never
\* is; the returned analysis has the empty usedComponents list.
C7_UnknownOnlyInFirstPass ==
  /\ ThrowsOnlyInTemplate
  /\ \A i \in 1..Len(pending) :
       pending[i].usedComponents.isNull = ~components[i].scope.bound
  /\ phase = "done" =>
       \A i \in 1..Len(returned) : ~components[i].scope.bound => UsedBy(i) = <<>>

\* a component without scope beside one whose scope uses no component
C7_Witness ==
  /\ phase = "done"
  /\ \E i, j \in 1..Len(returned) :
       /\ ~components[i].scope.bound
       /\ components[j].scope.bound
       /\ ReportedBy(j) = <<>>
       /\ pending[i].usedComponents.isNull
       /\ ~pending[j].usedComponents.isNull
       /\ UsedBy(i) = UsedBy(j)

\* C8: components holds one record per call of addComponent, in call order.
C8_OneRecordPerCall == components = calls

\* the names that two or more registered components have
SharedNames ==
  {NameOf(k) : k \in {l \in 1..Len(components) :
                         \E m \in 1..Len(components) : m # l /\ NameOf(m) = NameOf(l)}}

\* C20: two or more components of one display name raise no error, and
\* every reference of a used component to that name resolves to the
\* analysis of the component of that name registered last.
C20_LastOfNameWins ==
  /\ (SharedNames # {} /\ phase = "threw")
       => \E k \in 1..Len(components) :
            TemplateIdentifiers[components[k].template].visiting # "returned"
  /\ phase = "done" =>
       \A i \in 1..Len(returned) :
         LET kept == SelectSeq(ReportedBy(i), LAMBDA dir : IsRegistered(dir.name))
         IN /\ Len(UsedBy(i)) = Len(kept)
            /\ \A k \in 1..Len(kept) :
                 kept[k].name \in SharedNames
                   => /\ UsedBy(i)[k] = returned[LastNamed(kept[k].name)]
                      /\ analyses[UsedBy(i)[k]].declaration
                           = components[LastNamed(kept[k].name)].declaration

\* two components named A were analysed and the first one uses A: its one
\* usage is the analysis of the second
C20_Witness ==
  /\ phase = "done"
  /\ Len(components) = 2
  /\ NameOf(1) = "A"
  /\ NameOf(2) = "A"
  /\ returned[1] # returned[2]
  /\ UsedBy(1) = <<returned[2]>>

(***************************************************************************)
(* The invalid-interpolation repair: the two rules of RE_INTERPOLATIONS,   *)
(* matched as the regular expressions match, and fixInterpolations         *)
(***************************************************************************)
CharAt(text, k) == IF k < Len(text) THEN text[k + 1] ELSE ""

StartsWith(text, k, lit) ==
  /\ k + Len(lit) <= Len(text)
  /\ SubSeq(text, k + 1, k + Len(lit)) = lit

\* String.prototype.indexOf(lit, k)
RECURSIVE IndexOf(_, _, _)
IndexOf(text, lit, k) ==
  IF k + Len(lit) > Len(text) THEN 0 - 1
  ELSE IF StartsWith(text, k, lit) THEN k
  ELSE IndexOf(text, lit, k + 1)

\* what . does not match
LineTerminators == {"\n"}

\* (?<!["']\s*?) at offset k: TRUE when a quote and then only whitespace
\* end at k, which is when the lookbehind rejects the offset
RECURSIVE BehindQuote(_, _)
BehindQuote(text, k) ==
  IF k = 0 THEN FALSE
  ELSE IF text[k] \in Quotes THEN TRUE
  ELSE IF text[k] \in Whitespace THEN BehindQuote(text, k - 1)
  ELSE FALSE

\* ((?:'[^']*?'|"[^"]*?"|[^}'"])*?)} from offset k: the offset of the } that
\* ends the lazy group, -1 when the text ends or a quote stays open before
\* one is met. The three alternatives begin with different characters and
\* none takes a }, so the group ends at the first } outside a quoted string.
RECURSIVE GroupEnd(_, _)
GroupEnd(text, k) ==
  IF k >= Len(text) THEN 0 - 1
  ELSE IF text[k + 1] = "}" THEN k
  ELSE IF text[k + 1] \in Quotes
    THEN LET close == IndexOf(text, <<text[k + 1]>>, k + 1)
         IN IF close = 0 - 1 THEN 0 - 1 ELSE GroupEnd(text, close + 1)
  ELSE GroupEnd(text, k + 1)

OPEN == <<"{", "{">>
COMMENT_OPEN == <<"}", "<", "!", "-", "-">>
COMMENT_CLOSE == <<"-", "-", ">", "}">>

\* }<!--(.*?)-->} with the } at offset close: the offset of "-->}", or -1
CommentTail(text, close) ==
  IF ~StartsWith(text, close, COMMENT_OPEN) THEN 0 - 1
  ELSE LET k == IndexOf(text, COMMENT_CLOSE, close + 5)
       IN IF k = 0 - 1 THEN 0 - 1
          ELSE IF \E i \in (close + 5)..(k - 1) : text[i + 1] \in LineTerminators
            THEN 0 - 1
          ELSE k

\* a second rule that takes the } whatever follows it
SingleTail_AnyFollower(text, close) == close + 1

\* }(?!}) with the } at offset close: the offset after the match, or -1
SingleTail(text, close) == IF CharAt(text, close + 1) = "}" THEN 0 - 1 ELSE close + 1

NoMatch == [found |-> FALSE, index |-> 0, end |-> 0, groups |-> <<>>]

\* a RegExpExecArray: match.index, the offset after match[0], and the groups
Found(index, end, groups) ==
  [found |-> TRUE, index |-> index, end |-> end, groups |-> groups]

\* the first rule from the } at offset close on, k being where "-->}" is
CommentMatch(text, p, close, k) ==
  IF k = 0 - 1 THEN NoMatch
  ELSE Found(p, k + 4, <<Substring(text, p + 2, close), Substring(text, close + 5, k)>>)

\* the second rule from the } at offset close on, end being where it ends
SingleMatch(text, p, close, end) ==
  IF end = 0 - 1 THEN NoMatch
  ELSE Found(p, end, <<Substring(text, p + 2, close)>>)

\* a rule from the end of its group on
TailMatch(rule, text, p, close) ==
  IF close = 0 - 1 THEN NoMatch
  ELSE IF rule.tail = "comment"
    THEN CommentMatch(text, p, close, CommentTail(text, close))
  ELSE SingleMatch(text, p, close, SingleTail(text, close))

\* the match of a rule that begins at offset p, if there is one
MatchAt(rule, text, p) ==
  IF ~StartsWith(text, p, OPEN) \/ BehindQuote(text, p) THEN NoMatch
  ELSE TailMatch(rule, text, p, GroupEnd(text, p + 2))

RECURSIVE Exec(_, _, _)
\* the match at offset from, or else the first one after it
MatchOrLater(match, rule, text, from) ==
  IF match.found THEN match ELSE Exec(rule, text, from + 1)

\* reInterpolation.exec(text) with lastIndex = from
Exec(rule, text, from) ==
  IF from > Len(text) THEN NoMatch
  ELSE MatchOrLater(MatchAt(rule, text, from), rule, text, from)

RECURSIVE Matches(_, _, _)
MatchesFrom(match, rule, text) ==
  IF match.found THEN <<match>> \o Matches(rule, text, match.end) ELSE <<>>

\* the matches of while (match = reInterpolation.exec(newContent)), in order
Matches(rule, text, from) == MatchesFrom(Exec(rule, text, from), rule, text)

Literal(chars) == [group |-> 0, text |-> chars]
Group(n) == [group |-> n, text |-> <<>>]

\* the replacement string with $1 and $2 filled in
Expand(replacement, groups) ==
  Concat([i \in 1..Len(replacement) |->
            IF replacement[i].group = 0 THEN replacement[i].text
            ELSE groups[replacement[i].group]])

RECURSIVE Replace(_, _, _)
ReplaceFrom(match, rule, text, from) ==
  IF match.found
    THEN Substring(text, from, match.index)
           \o Expand(rule.replacement, match.groups)
           \o Replace(rule, text, match.end)
  ELSE Substring(text, from, Len(text))

\* newContent.replace(reInterpolation, replacement), from offset from on
Replace(rule, text, from) == ReplaceFrom(Exec(rule, text, from), rule, text, from)

ESCAPED_OPEN == <<"{", "{", " ", "'", "{", "{", "'", " ", "}", "}">>
ESCAPED_CLOSE == <<"{", "{", " ", "'", "}", "}", "'", " ", "}", "}">>
ESCAPED_BRACE == <<"{", "{", " ", "'", "}", "'", " ", "}", "}">>

RE_INTERPOLATIONS ==
  <<[tail |-> "comment",
     replacement |-> <<Literal(ESCAPED_OPEN), Group(1),
                       Literal(ESCAPED_CLOSE \o <<"<", "!", "-", "-">>), Group(2),
                       Literal(<<"-", "-", ">">>)>>],
    [tail |-> "single",
     replacement |-> <<Literal(ESCAPED_OPEN), Group(1), Literal(ESCAPED_BRACE)>>]>>

\* fixInterpolations returning null
NoFix == [isNull |-> TRUE, newContent |-> <<>>, invalidInterpolations |-> <<>>]

\* invalidInterpolations.push({span: new AbsoluteSourceSpan(start, end),
\*                             original: match[0]}) for the matches found
Recorded(resolvedTemplate, newContent, found) ==
  [i \in 1..Len(found) |->
     [span |-> Span(resolvedTemplate.start + found[i].index,
                    resolvedTemplate.start + found[i].index
                      + (found[i].end - found[i].index)),
      original |-> Substring(newContent, found[i].index, found[i].end)]]

\* the loop over RE_INTERPOLATIONS from the k-th rule on: every match of the
\* rule in the content as the earlier rules left it is recorded, then all of
\* them are replaced
RECURSIVE ApplyRules(_, _, _, _)
ApplyRules(resolvedTemplate, newContent, invalidInterpolations, k) ==
  IF k > Len(RE_INTERPOLATIONS)
    THEN [newContent |-> newContent, invalidInterpolations |-> invalidInterpolations]
  ELSE ApplyRules(resolvedTemplate,
                  Replace(RE_INTERPOLATIONS[k], newContent, 0),
                  invalidInterpolations
                    \o Recorded(resolvedTemplate, newContent,
                                Matches(RE_INTERPOLATIONS[k], newContent, 0)),
                  k + 1)

\* a fix returned whether or not anything was recorded
FixedTemplate_Always(resolvedTemplate, fixed) ==
  [isNull |-> FALSE,
   originalTemplate |-> resolvedTemplate,
   newContent |-> fixed.newContent,
   invalidInterpolations |-> fixed.invalidInterpolations]

\* the end of fixInterpolations: null when nothing was recorded
FixedTemplate(resolvedTemplate, fixed) ==
  IF Len(fixed.invalidInterpolations) = 0 THEN NoFix
  ELSE [isNull |-> FALSE,
        originalTemplate |-> resolvedTemplate,
        newContent |-> fixed.newContent,
        invalidInterpolations |-> fixed.invalidInterpolations]

fixInterpolations(resolvedTemplate) ==
  FixedTemplate(resolvedTemplate,
                ApplyRules(resolvedTemplate, resolvedTemplate.content, <<>>, 1))

(***************************************************************************)
(* The templates the repair is run on                                      *)
(***************************************************************************)
MaxFragments == 3

COMMENT == <<"<", "!", "-", "-", "c", "-", "-", ">">>
COMMENT_OF_TWO_LINES == <<"<", "!", "-", "-", "\n", "-", "-", ">">>
INTERPOLATION_A == <<"{", "{", "a", "}">>

Fragments ==
  {OPEN, <<"}">>, <<"a">>, <<"'">>, <<"\"">>, <<" ">>, <<"\n">>,
   INTERPOLATION_A, COMMENT, COMMENT_OF_TWO_LINES}

\* {{expr}<!--cmt-->}
CommentEscape(expr, cmt) == OPEN \o expr \o COMMENT_OPEN \o cmt \o COMMENT_CLOSE

EXPR == <<"e", "x", "p", "r">>
CMT == <<" ", "c", "m", "t", " ">>
EscapedExprs == {EXPR, <<" ", "1", " ">>, <<"a">>, <<"'", "}", "'">>}
EscapedComments == {CMT, <<" ">>, <<>>, <<"-", "-", ">">>}

\* {{"x{{a}"} and {{'x{{a}'}: an interpolation-like text inside a quoted string
QuotedInterpolations ==
  {OPEN \o <<q, "x">> \o INTERPOLATION_A \o <<q, "}">> : q \in Quotes}

Contents ==
  {Concat(fragments) : fragments \in SeqUpTo(Fragments, MaxFragments)}
    \cup {CommentEscape(expr, cmt) : expr \in EscapedExprs, cmt \in EscapedComments}
    \cup QuotedInterpolations
    \cup {OPEN \o <<" ", "1", " ", "}">>,
          INTERPOLATION_A \o COMMENT \o <<"}">> \o INTERPOLATION_A,
          INTERPOLATION_A \o <<"}">> \o INTERPOLATION_A}

\* offsets of a template in its file: an external template starts at 0
Starts == {0, 7}

DEFAULT_INTERPOLATION_CONFIG == [start |-> OPEN, end |-> <<"}", "}">>]

ResolvedTemplate(content, start) ==
  [content |-> content, start |-> start, inline |-> start # 0,
   filePath |-> IF start # 0 THEN "a.ts" ELSE "a.html",
   interpolationConfig |-> DEFAULT_INTERPOLATION_CONFIG]

(***************************************************************************)
(* The repair as a state machine: fixInterpolations on a template, and on  *)
(* the template as a first run of the schematic rewrote it                 *)
(***************************************************************************)
RepairInit ==
  /\ resolved \in {ResolvedTemplate(content, start) :
                     content \in Contents, start \in Starts}
  /\ firstFix = NoFix
  /\ secondFix = NoFix
  /\ stage = "start"
  /\ IdleIndexer
  /\ IdleAnalysis
  /\ IdleSchematic
  /\ IdleExpression
  /\ IdlePrinter

\* const templateFix = fixInterpolations(template)
FixInterpolations ==
  /\ stage = "start"
  /\ firstFix' = fixInterpolations(resolved)
  /\ stage' = "fixed"
  /\ UNCHANGED <<resolved, secondFix>>
  /\ UNCHANGED <<indexerVars, analysisVars, schematicVars, expressionVars, printerVars>>

\* the template as the file holds it once the update of the first run is
\* committed: updater.remove(start, content.length), insertLeft(start, newContent)
Rewritten ==
  IF firstFix.isNull THEN resolved
  ELSE [resolved EXCEPT !.content = firstFix.newContent]

\* fixInterpolations in a second run of the schematic
FixInterpolationsAgain ==
  /\ stage = "fixed"
  /\ secondFix' = fixInterpolations(Rewritten)
  /\ stage' = "refixed"
  /\ UNCHANGED <<resolved, firstFix>>
  /\ UNCHANGED <<indexerVars, analysisVars, schematicVars, expressionVars, printerVars>>

RepairNext ==
  \/ FixInterpolations
  \/ FixInterpolationsAgain

RepairSpec == RepairInit /\ [][RepairNext]_vars

(***************************************************************************)
(* Properties of the repair                                                *)
(***************************************************************************)
\* C9: fixInterpolations over the newContent of a first application finds no
\* match of either rule and returns no fix.
C9_Idempotent ==
  (stage = "refixed" /\ ~firstFix.isNull) =>
    /\ secondFix.isNull
    /\ \A k \in 1..Len(RE_INTERPOLATIONS) :
         Matches(RE_INTERPOLATIONS[k], firstFix.newContent, 0) = <<>>

C12_SpanInOriginal ==
  stage # "start" =>
    \A i \in 1..Len(firstFix.invalidInterpolations) :
      LET invalid == firstFix.invalidInterpolations[i]
          offset == invalid.span.start - resolved.start
      IN /\ invalid.span.end - invalid.span.start = Len(invalid.original)
         /\ offset >= 0
         /\ offset + Len(invalid.original) <= Len(resolved.content)
         /\ Substring(resolved.content, offset, offset + Len(invalid.original))
              = invalid.original

(***************************************************************************)
(* The run of the repair over a project: getFixesByFile and                *)
(* fixInvalidInterpolations                                                *)
(***************************************************************************)
\* a configuration the template visitor could not determine
UNKNOWN == [start |-> <<"unknown">>, end |-> <<"unknown">>]

\* only the start delimiter compared
Eligible_ByStartOnly(resolvedTemplate) ==
  ~(\/ resolvedTemplate.interpolationConfig = UNKNOWN
    \/ resolvedTemplate.interpolationConfig.start # DEFAULT_INTERPOLATION_CONFIG.start)

\* the templates getFixesByFile does not skip
Eligible(resolvedTemplate) ==
  ~(\/ resolvedTemplate.interpolationConfig = UNKNOWN
    \/ resolvedTemplate.interpolationConfig.start # DEFAULT_INTERPOLATION_CONFIG.start
    \/ resolvedTemplate.interpolationConfig.end # DEFAULT_INTERPOLATION_CONFIG.end)

\* fixesByFile.has(file)
MapHas(map, file) == \E i \in 1..Len(map) : map[i].file = file

\* fixesByFile.get(file)!.push(templateFix)
MapPush(map, file, templateFix) ==
  [i \in 1..Len(map) |->
     IF map[i].file = file
       THEN [map[i] EXCEPT !.fixes = Append(@, templateFix)]
     ELSE map[i]]

\* every fix pushed, of an inline template or not
RecordFix_PushAlways(map, resolvedTemplate, templateFix) ==
  IF templateFix.isNull THEN map
  ELSE IF MapHas(map, resolvedTemplate.filePath)
    THEN MapPush(map, resolvedTemplate.filePath, templateFix)
  ELSE Append(map, [file |-> resolvedTemplate.filePath, fixes |-> <<templateFix>>])

\* the end of one turn of the loop of getFixesByFile, from the fix on
RecordFix(map, resolvedTemplate, templateFix) ==
  IF templateFix.isNull THEN map
  ELSE IF MapHas(map, resolvedTemplate.filePath)
    THEN IF resolvedTemplate.inline
           THEN MapPush(map, resolvedTemplate.filePath, templateFix)
         ELSE map
  ELSE Append(map, [file |-> resolvedTemplate.filePath, fixes |-> <<templateFix>>])

\* getFixesByFile from the k-th template on
RECURSIVE FixesFrom(_, _, _)
FixesFrom(map, templates, k) ==
  IF k > Len(templates) THEN map
  ELSE IF ~Eligible(templates[k]) THEN FixesFrom(map, templates, k + 1)
  ELSE FixesFrom(RecordFix(map, templates[k], fixInterpolations(templates[k])),
                 templates, k + 1)

getFixesByFile(templates) == FixesFrom(<<>>, templates, 1)

\* computeLineStartsMap(text): the offsets at which the lines of text start
computeLineStartsMap(text) ==
  <<0>> \o SelectSeq([i \in 1..Len(text) |-> IF text[i] = "\n" THEN i ELSE 0 - 1],
                     LAMBDA start : start # 0 - 1)

\* getLineAndCharacterFromPosition(lineStartsMap, position), both 0-based
getLineAndCharacterFromPosition(lineStartsMap, position) ==
  LET lineIndex ==
        CHOOSE k \in 1..Len(lineStartsMap) :
          /\ lineStartsMap[k] <= position
          /\ \A l \in (k + 1)..Len(lineStartsMap) : lineStartsMap[l] > position
  IN [line |-> lineIndex - 1, character |-> position - lineStartsMap[lineIndex]]

\* `${treeFilePath}@${line + 1}:${character + 1}: ${original}`
ReportLine(treeFilePath, lineAndCharacter, original) ==
  [file |-> treeFilePath, line |-> lineAndCharacter.line + 1,
   column |-> lineAndCharacter.character + 1, original |-> original]

\* the report lines of one fix
LinesOfFix(treeFilePath, lineStartsMap, fix) ==
  [i \in 1..Len(fix.invalidInterpolations) |->
     ReportLine(treeFilePath,
                getLineAndCharacterFromPosition(lineStartsMap,
                                                fix.invalidInterpolations[i].span.start),
                fix.invalidInterpolations[i].original)]

\* the report lines of the fixes of one file, fix after fix
LinesOfFile(treeFilePath, lineStartsMap, fixes) ==
  Concat([i \in 1..Len(fixes) |-> LinesOfFix(treeFilePath, lineStartsMap, fixes[i])])

\* updater.remove(start, content.length); updater.insertLeft(start, newContent)
Splice(content, fix) ==
  Substring(content, 0, fix.originalTemplate.start)
    \o fix.newContent
    \o Substring(content,
                 fix.originalTemplate.start + Len(fix.originalTemplate.content),
                 Len(content))

\* the text of a file once the recorded updates are committed: each update
\* is placed by the offsets of the original text, so the last one goes first
RECURSIVE Committed(_, _)
Committed(content, fixes) ==
  IF fixes = {} THEN content
  ELSE Committed(Splice(content,
                        CHOOSE fix \in fixes :
                          \A other \in fixes :
                            other.originalTemplate.start <= fix.originalTemplate.start),
                 fixes \ {CHOOSE fix \in fixes :
                            \A other \in fixes :
                              other.originalTemplate.start <= fix.originalTemplate.start})

(***************************************************************************)
(* The projects the repair is run on                                       *)
(***************************************************************************)
MaxTemplates == 4

CUSTOM_START == [start |-> <<"[", "[">>, end |-> <<"}", "}">>]
CUSTOM_END == [start |-> OPEN, end |-> <<"]", "]">>]

COMMENT_ESCAPE_A == CommentEscape(<<"a">>, <<"c">>)
VALID_A == <<"{", "{", "a", "}", "}">>
SECOND_LINE_A == <<"\n", " ">> \o INTERPOLATION_A

\* the text of the files of the project
FileText ==
  [path \in {"a.ts", "b.ts", "c.html", "d.html", "u.html"} |->
     CASE path = "a.ts" ->
            <<"x", "\n">> \o INTERPOLATION_A \o <<"\n">> \o COMMENT_ESCAPE_A
       [] path = "b.ts" -> <<"y">> \o INTERPOLATION_A \o <<"\n">> \o INTERPOLATION_A
       [] path = "c.html" -> SECOND_LINE_A
       [] path = "d.html" -> VALID_A
       [] path = "u.html" -> INTERPOLATION_A]

Files == DOMAIN FileText

\* a template as NgComponentTemplateVisitor resolves it
TemplateIn(filePath, start, content, inline, interpolationConfig) ==
  [content |-> content, start |-> start, inline |-> inline, filePath |-> filePath,
   interpolationConfig |-> interpolationConfig]

\* the templates the project holds: two inline ones in a.ts, two inline ones
\* with delimiters of their own in b.ts, and three external ones
ProjectTemplates ==
  {TemplateIn("a.ts", 2, INTERPOLATION_A, TRUE, DEFAULT_INTERPOLATION_CONFIG),
   TemplateIn("a.ts", 7, COMMENT_ESCAPE_A, TRUE, DEFAULT_INTERPOLATION_CONFIG),
   TemplateIn("b.ts", 1, INTERPOLATION_A, TRUE, CUSTOM_START),
   TemplateIn("b.ts", 6, INTERPOLATION_A, TRUE, CUSTOM_END),
   TemplateIn("c.html", 0, SECOND_LINE_A, FALSE, DEFAULT_INTERPOLATION_CONFIG),
   TemplateIn("d.html", 0, VALID_A, FALSE, DEFAULT_INTERPOLATION_CONFIG),
   TemplateIn("u.html", 0, INTERPOLATION_A, FALSE, UNKNOWN)}

\* an inline template is resolved once; an external one once for every
\* component that refers to it
Resolutions ==
  {templates \in SeqUpTo(ProjectTemplates, MaxTemplates) :
     \A i, j \in 1..Len(templates) :
       (i # j /\ templates[i].inline) => templates[i] # templates[j]}

\* the tree in which the files of unreadable cannot be read
TreeWithout(unreadable) ==
  [path \in Files |-> [readable |-> path \notin unreadable, content |-> FileText[path]]]

Trees == {TreeWithout(unreadable) : unreadable \in {{}, {"a.ts"}, {"c.html"}}}

(***************************************************************************)
(* fixInvalidInterpolations as a state machine                             *)
(***************************************************************************)
Info(text) == [level |-> "info", text |-> text, fix |-> <<>>]

\* logger.info(`    ${fix}`)
InfoOfFix(fix) == [level |-> "info", text |-> "    ", fix |-> <<fix>>]

FAILED_TO_READ ==
  [level |-> "error",
   text |-> "Failed to read file containing template; cannot apply fixes for invalid interpolations.",
   fix |-> <<>>]

REPORT_HEADER ==
  <<Info("Malformed interpolation-like markup like \"{{ 1 }\" or \"{{ 1 }<!-- -->}\""),
    Info("are no longer valid. Interpolation delimiters should be escaped explicitly,"),
    Info("for example as in \"{{ '{{' }} 1 {{ '}}' }}\"."),
    Info(""),
    Info("This schematic has detected and fixed the following malformed interpolations:")>>

SchematicInit ==
  /\ resolvedTemplates \in Resolutions
  /\ tree \in Trees
  /\ fixesByFile = <<>>
  /\ progress = "collect"
  /\ at = 0
  /\ collectedFixes = <<>>
  /\ logged = <<>>
  /\ IdleIndexer
  /\ IdleAnalysis
  /\ IdleRepair
  /\ IdleExpression
  /\ IdlePrinter

\* const fixesByFile = getFixesByFile(templateVisitor.resolvedTemplates)
GetFixesByFile ==
  /\ progress = "collect"
  /\ fixesByFile' = getFixesByFile(resolvedTemplates)
  /\ progress' = "apply"
  /\ at' = 1
  /\ UNCHANGED <<resolvedTemplates, tree, collectedFixes, logged>>
  /\ UNCHANGED <<indexerVars, analysisVars, repairVars, expressionVars, printerVars>>

\* one turn of for (const [absFilePath, fixes] of fixesByFile): the file
\* cannot be read and the function returns, or its fixes are committed and
\* their report lines collected
ApplyFixes ==
  /\ progress = "apply"
  /\ at <= Len(fixesByFile)
  /\ IF ~tree[fixesByFile[at].file].readable
       THEN /\ logged' = Append(logged, FAILED_TO_READ)
            /\ progress' = "returned"
            /\ UNCHANGED <<tree, at, collectedFixes>>
     ELSE /\ tree' = [tree EXCEPT ![fixesByFile[at].file].content =
                                    Committed(@, Range(fixesByFile[at].fixes))]
          /\ collectedFixes' =
               collectedFixes
                 \o LinesOfFile(fixesByFile[at].file,
                                computeLineStartsMap(tree[fixesByFile[at].file].content),
                                fixesByFile[at].fixes)
          /\ at' = at + 1
          /\ UNCHANGED <<progress, logged>>
  /\ UNCHANGED <<resolvedTemplates, fixesByFile>>
  /\ UNCHANGED <<indexerVars, analysisVars, repairVars, expressionVars, printerVars>>

\* if (collectedFixes.length > 0) { logger.info(...) ... }
Report ==
  /\ progress = "apply"
  /\ at > Len(fixesByFile)
  /\ logged' =
       IF Len(collectedFixes) > 0
         THEN logged \o REPORT_HEADER
                \o [i \in 1..Len(collectedFixes) |-> InfoOfFix(collectedFixes[i])]
       ELSE logged
  /\ progress' = "done"
  /\ UNCHANGED <<resolvedTemplates, tree, fixesByFile, at, collectedFixes>>
  /\ UNCHANGED <<indexerVars, analysisVars, repairVars, expressionVars, printerVars>>

SchematicNext ==
  \/ GetFixesByFile
  \/ ApplyFixes
  \/ Report

SchematicSpec == SchematicInit /\ [][SchematicNext]_vars

(***************************************************************************)
(* Properties of the run of the repair                                     *)
(***************************************************************************)
\* the run is over: the report was made, or the function returned early
RunOver == progress \in {"done", "returned"}

\* the files all of whose resolved templates have delimiters of their own
\* or an undetermined configuration
FilesOfCustomOnly ==
  {file \in Files :
     /\ \E i \in 1..Len(resolvedTemplates) : resolvedTemplates[i].filePath = file
     /\ \A i \in 1..Len(resolvedTemplates) :
          resolvedTemplates[i].filePath = file
            => resolvedTemplates[i].interpolationConfig # DEFAULT_INTERPOLATION_CONFIG}

\* the files named by the lines of the report and of the collected fixes
FilesReported ==
  {collectedFixes[i].file : i \in 1..Len(collectedFixes)}
    \cup {logged[i].fix[1].file : i \in {j \in 1..Len(logged) : logged[j].fix # <<>>}}

\* C11: a template whose configuration is 'unknown' or whose start or end
\* delimiter is not the default one yields no fix record: no fix of
\* fixesByFile is of such a template, and a file that holds only such
\* templates is never updated and never named in the report.
C11_CustomTemplatesUntouched ==
  /\ \A i \in 1..Len(fixesByFile) :
       /\ fixesByFile[i].file \notin FilesOfCustomOnly
       /\ \A k \in 1..Len(fixesByFile[i].fixes) :
            fixesByFile[i].fixes[k].originalTemplate.interpolationConfig
              = DEFAULT_INTERPOLATION_CONFIG
  /\ \A file \in FilesOfCustomOnly :
       /\ tree[file].content = FileText[file]
       /\ file \notin FilesReported

\* a finished run over a project with a template of custom end delimiter and
\* one of undetermined configuration, both with a malformed interpolation,
\* next to a template that was repaired and reported
C11_Witness ==
  /\ progress = "done"
  /\ \E i \in 1..Len(resolvedTemplates) :
       /\ resolvedTemplates[i].interpolationConfig = CUSTOM_END
       /\ ~fixInterpolations(resolvedTemplates[i]).isNull
  /\ \E i \in 1..Len(resolvedTemplates) :
       /\ resolvedTemplates[i].interpolationConfig = UNKNOWN
       /\ ~fixInterpolations(resolvedTemplates[i]).isNull
  /\ Len(fixesByFile) > 0
  /\ Len(logged) > Len(REPORT_HEADER)

\* fixInterpolations of every template of the project, tabulated
FixOfTemplate == [t \in ProjectTemplates |-> fixInterpolations(t)]

\* the resolved templates in which the repair finds an invalid
\* interpolation: those of default delimiters for which a rule matches
WithInvalid ==
  SelectSeq(resolvedTemplates,
            LAMBDA t : /\ t.interpolationConfig = DEFAULT_INTERPOLATION_CONFIG
                       /\ ~FixOfTemplate[t].isNull)

\* the templates recorded for a file, inline ones or the others
RecordedOf(entry, inline) ==
  SelectSeq([k \in 1..Len(entry.fixes) |-> entry.fixes[k].originalTemplate],
            LAMBDA t : t.inline = inline)

\* C21: getFixesByFile records the fix of a template that is not inline at
\* most once for its file, however often the template is resolved, and
\* records every inline template in which an invalid interpolation is
\* found, one fix for each, in the order in which the templates were given.
C21_ExternalOnceInlineEach ==
  progress # "collect" =>
    /\ \A i, j \in 1..Len(fixesByFile) :
         fixesByFile[i].file = fixesByFile[j].file => i = j
    /\ \A i \in 1..Len(fixesByFile) :
         /\ Len(RecordedOf(fixesByFile[i], FALSE)) <= 1
         /\ RecordedOf(fixesByFile[i], TRUE)
              = SelectSeq(WithInvalid,
                          LAMBDA t : t.inline /\ t.filePath = fixesByFile[i].file)
         /\ \A k \in 1..Len(fixesByFile[i].fixes) :
              fixesByFile[i].fixes[k]
                = FixOfTemplate[fixesByFile[i].fixes[k].originalTemplate]
    /\ \A k \in 1..Len(WithInvalid) :
         \E i \in 1..Len(fixesByFile) : fixesByFile[i].file = WithInvalid[k].filePath

\* an external template resolved twice was recorded once, and the two
\* inline templates of one file, given in the reverse of their order in
\* the file, were both recorded in the order given
C21_Witness ==
  /\ progress # "collect"
  /\ \E i, j \in 1..Len(resolvedTemplates) :
       /\ i # j
       /\ resolvedTemplates[i] = resolvedTemplates[j]
       /\ ~resolvedTemplates[i].inline
       /\ \E e \in 1..Len(fixesByFile) :
            /\ fixesByFile[e].file = resolvedTemplates[i].filePath
            /\ Len(fixesByFile[e].fixes) = 1
  /\ \E e \in 1..Len(fixesByFile) :
       /\ Len(fixesByFile[e].fixes) = 2
       /\ fixesByFile[e].fixes[1].originalTemplate.inline
       /\ fixesByFile[e].fixes[1].originalTemplate.start
            > fixesByFile[e].fixes[2].originalTemplate.start

\* a rule matches in the content: the first in the content itself, or the
\* second in what the first has left of it
RuleMatches(content) ==
  \/ Matches(RE_INTERPOLATIONS[1], content, 0) # <<>>
  \/ Matches(RE_INTERPOLATIONS[2], Replace(RE_INTERPOLATIONS[1], content, 0), 0) # <<>>

\* the templates of the project in which a rule matches
Matched == {t \in ProjectTemplates : RuleMatches(t.content)}

\* fixInterpolations returns null for exactly the contents no rule matches
NullExactlyWithoutMatch ==
  \A content \in Contents :
    fixInterpolations(ResolvedTemplate(content, 0)).isNull <=> ~RuleMatches(content)

\* C24: fixInterpolations returns a fix exactly when a rule matched: a
\* template in which no rule matches yields null and no fix is recorded
\* for it, a file none of whose templates has a match is not updated and is
\* named by no report line, and every fix returned or recorded has at least
\* one invalid interpolation.
C24_FixExactlyWhenMatched ==
  /\ NullExactlyWithoutMatch
  /\ \A t \in ProjectTemplates :
       /\ FixOfTemplate[t].isNull <=> t \notin Matched
       /\ ~FixOfTemplate[t].isNull => Len(FixOfTemplate[t].invalidInterpolations) > 0
  /\ \A i \in 1..Len(fixesByFile) :
       \A k \in 1..Len(fixesByFile[i].fixes) :
         /\ fixesByFile[i].fixes[k].originalTemplate \in Matched
         /\ Len(fixesByFile[i].fixes[k].invalidInterpolations) > 0
  /\ \A file \in Files :
       (\A i \in 1..Len(resolvedTemplates) :
          resolvedTemplates[i].filePath = file => resolvedTemplates[i] \notin Matched)
         => /\ \A i \in 1..Len(fixesByFile) : fixesByFile[i].file # file
            /\ tree[file].content = FileText[file]
            /\ file \notin FilesReported

\* a finished run over a project with a template of default delimiters in
\* which no rule matches, next to one that was repaired and reported: the
\* file of the first is as it was
C24_Witness ==
  /\ progress = "done"
  /\ \E i \in 1..Len(resolvedTemplates) :
       /\ resolvedTemplates[i].interpolationConfig = DEFAULT_INTERPOLATION_CONFIG
       /\ resolvedTemplates[i] \notin Matched
       /\ tree[resolvedTemplates[i].filePath].content
            = FileText[resolvedTemplates[i].filePath]
  /\ \E i \in 1..Len(fixesByFile) :
       tree[fixesByFile[i].file].content # FileText[fixesByFile[i].file]
  /\ Len(logged) > Len(REPORT_HEADER)

\* C13: when a file cannot be read the error is logged and only that file
\* is skipped: once the run is over, every readable file with recorded
\* fixes holds its repaired text, whether it comes before or after the
\* unreadable one.
C13_OtherFilesCommitted ==
  RunOver =>
    /\ (\E i \in 1..Len(fixesByFile) : ~tree[fixesByFile[i].file].readable)
         => FAILED_TO_READ \in Range(logged)
    /\ \A i \in 1..Len(fixesByFile) :
         tree[fixesByFile[i].file].readable
           => tree[fixesByFile[i].file].content
                = Committed(FileText[fixesByFile[i].file], Range(fixesByFile[i].fixes))

\* C14: once the run is over the report holds one line for every invalid
\* interpolation of every fix that was committed, also when a later file
\* could not be read.
C14_EveryCommittedFixReported ==
  RunOver =>
    \A i \in 1..Len(fixesByFile) :
      tree[fixesByFile[i].file].content # FileText[fixesByFile[i].file]
        => \A k \in 1..Len(fixesByFile[i].fixes) :
             \A n \in 1..Len(fixesByFile[i].fixes[k].invalidInterpolations) :
               InfoOfFix(ReportLine(
                   fixesByFile[i].file,
                   getLineAndCharacterFromPosition(
                       computeLineStartsMap(FileText[fixesByFile[i].file]),
                       fixesByFile[i].fixes[k].invalidInterpolations[n].span.start),
                   fixesByFile[i].fixes[k].invalidInterpolations[n].original))
                 \in Range(logged)

(***************************************************************************)
(* The expression visitor on its own: one expression is parsed and         *)
(* visited (template.ts:50-166).                                           *)
(***************************************************************************)
ExprAtoms == {E_foo, E_bar, LiteralPrimitive(<<"1">>)}

\* the nodes written after their first child: reads, safe reads, calls and
\* keyed reads of the receivers, with arguments and keys from operands
Postfix(receivers, operands) ==
  {PropertyRead(x, <<"b">>) : x \in receivers}
    \cup {SafePropertyRead(x, <<"b">>) : x \in receivers}
    \cup {MethodCall(x, <<"m">>, args) :
            x \in receivers, args \in SeqUpTo(operands, MaxChildren)}
    \cup {FunctionCall(x, args) : x \in receivers, args \in SeqUpTo(operands, MaxChildren)}
    \cup {KeyedRead(x, y) : x \in receivers, y \in operands}

\* the nodes written with an operator between or before their children
Operators(operands) ==
  {Binary(<<"+">>, x, y) : x, y \in operands}
    \cup {Conditional(x, y, z) : x, y, z \in operands}
    \cup {PrefixNot(x) : x \in operands}
    \cup {BindingPipe(x, <<"p">>, args) :
            x \in operands, args \in SeqUpTo(operands, MaxChildren)}
    \cup {Chain(x, y) : x, y \in operands}

PostfixOfNames == Postfix({E_foo, E_bar}, ExprAtoms)

\* the expressions visited: the terminal nodes, every kind of compound node
\* over names and literals, and compound nodes over compound nodes
Expressions ==
  ExprAtoms \cup {ImplicitReceiver, Quote(<<"q", ":", "x">>)}
    \cup PostfixOfNames
    \cup Operators(ExprAtoms)
    \cup Postfix(PostfixOfNames, {E_foo})
    \cup {FunctionCall(E_foo, <<c>>) : c \in PostfixOfNames}
    \cup {Binary(<<"+">>, c, E_foo) : c \in PostfixOfNames}

\* the parsed expressions, and the interpolations of the bound texts
ParsedExpressions ==
  {ParseExpr(e, 0) : e \in Expressions}
    \cup {ParseInterpolation(text.parts) :
            text \in {BT_foo, BT_chain, BT_after_text, BT_whitespace, BT_method}}

ExpressionInit ==
  /\ exprAst \in ParsedExpressions
  /\ exprEntities = <<>>
  /\ exprVisited = FALSE
  /\ IdleIndexer
  /\ IdleAnalysis
  /\ IdleRepair
  /\ IdleSchematic
  /\ IdlePrinter

\* ast.visit(new ExpressionVisitor())
VisitExpression ==
  /\ ~exprVisited
  /\ exprEntities' = ExpressionVisit(exprAst)
  /\ exprVisited' = TRUE
  /\ UNCHANGED exprAst
  /\ UNCHANGED <<indexerVars, analysisVars, repairVars, schematicVars, printerVars>>

ExpressionNext == VisitExpression

ExpressionSpec == ExpressionInit /\ [][ExpressionNext]_vars

(***************************************************************************)
(* Properties of the expression visitor                                    *)
(***************************************************************************)
RECURSIVE InOrder(_)
\* the entities of the property reads of ast, each after the entities of
\* its receiver, the children of every other node taken from left to right
InOrder(ast) ==
  Concat([i \in 1..Len(ast.args) |-> InOrder(ast.args[i])])
    \o (IF ast.kind = "PropertyRead" THEN <<Entity(ast.name, ast.span)>> ELSE <<>>)

\* C16: every compound node returns the flat concatenation of what its
\* children return, from left to right and with duplicates kept; a function
\* call returns the entities of its target followed by those of its
\* arguments as one flat sequence of entities.
C16_FlatConcatenation ==
  exprVisited =>
    /\ \A i \in 1..Len(exprEntities) : ~exprEntities[i].isArray
    /\ exprEntities = InOrder(exprAst)

\* C17: a property read returns the entities of its receiver followed by
\* exactly one entity for the read itself, with the name read and the span
\* of the read, as the last one; a literal, an implicit receiver and a
\* quote return no entity.
C17_ReadLastTerminalsNone ==
  exprVisited =>
    /\ exprAst.kind = "PropertyRead"
         => exprEntities
              = ExpressionVisit(exprAst.args[1]) \o <<Entity(exprAst.name, exprAst.span)>>
    /\ exprAst.kind \in {"LiteralPrimitive", "ImplicitReceiver", "Quote"}
         => exprEntities = <<>>

\* the read .b of a method call on foo with the arguments foo and bar was
\* visited: four entities, the one of the read last
C17_Witness ==
  /\ exprVisited
  /\ exprAst.kind = "PropertyRead"
  /\ exprAst.args[1].kind = "MethodCall"
  /\ Len(exprEntities) = 4
  /\ exprEntities[4].name = <<"b">>
  /\ exprEntities[4].span = exprAst.span
  /\ exprEntities[1].name = S_foo

(***************************************************************************)
(* The template printer (desugar.ts:5-126) and the Unparser it prints      *)
(* expressions with (desugar.ts:128-317).  The printer reads no span but   *)
(* endSourceSpan, so it is run on the nodes as they are written.           *)
(***************************************************************************)
RECURSIVE Joined(_, _)
\* the texts with the separator between them
Joined(texts, separator) ==
  IF texts = <<>> THEN <<>>
  ELSE IF Len(texts) = 1 THEN texts[1]
  ELSE texts[1] \o separator \o Joined(Tail(texts), separator)

RECURSIVE Unparse(_)
\* new Unparser().unparse(ast) for the expression e
Unparse(e) ==
  LET receiver == Unparse(e.args[1])
      dotted == IF e.args[1].kind = "ImplicitReceiver" THEN e.name ELSE <<".">> \o e.name
      arguments == Joined([i \in 1..(Len(e.args) - 1) |-> Unparse(e.args[i + 1])],
                          <<",", " ">>)
  IN CASE e.kind = "ImplicitReceiver" -> <<>>
       [] e.kind = "PropertyRead" -> receiver \o dotted
       [] e.kind = "SafePropertyRead" -> receiver \o <<"?", ".">> \o e.name
       [] e.kind = "MethodCall" -> receiver \o dotted \o <<"(">> \o arguments \o <<")">>
       [] e.kind = "FunctionCall" -> receiver \o <<"(">> \o arguments \o <<")">>
       [] e.kind = "Binary" ->
            receiver \o <<" ">> \o e.name \o <<" ">> \o Unparse(e.args[2])
       [] e.kind = "Conditional" ->
            receiver \o <<" ", "?", " ">> \o Unparse(e.args[2])
              \o <<" ", ":", " ">> \o Unparse(e.args[3])
       [] e.kind = "BindingPipe" ->
            <<"(">> \o receiver \o <<" ", "|", " ">> \o e.name
              \o Concat([i \in 1..(Len(e.args) - 1) |-> <<":">> \o Unparse(e.args[i + 1])])
              \o <<")">>
       [] e.kind = "KeyedRead" -> receiver \o <<"[">> \o Unparse(e.args[2]) \o <<"]">>
       [] e.kind = "PrefixNot" -> <<"!">> \o receiver
       [] e.kind = "Chain" ->
            Concat([i \in 1..Len(e.args) |->
                      Unparse(e.args[i])
                        \o (IF i = Len(e.args) THEN <<";">> ELSE <<";", " ">>)])
       [] e.kind = "Quote" -> e.name
       [] e.kind = "LiteralPrimitive" ->
            IF e.name[1] \in Quotes
              THEN <<"\"">> \o SubSeq(e.name, 2, Len(e.name) - 1) \o <<"\"">>
            ELSE e.name

\* Unparser.visitInterpolation for the value of a bound text
UnparseInterpolation(parts) ==
  Concat([i \in 1..Len(parts) |->
            IF parts[i].isExpr
              THEN DEFAULT_INTERPOLATION_CONFIG.start \o <<" ">> \o Unparse(parts[i].expr)
                     \o <<" ">> \o DEFAULT_INTERPOLATION_CONFIG.end
            ELSE parts[i].lit])

\* name="value", or the bare name of an attribute with no value
Valued(prefix, name, value) ==
  IF Len(value) > 0 THEN prefix \o name \o <<"=", "\"">> \o value \o <<"\"">>
  ELSE prefix \o name

\* what the visit of a node without children prints; an Icu prints nothing
LeafText(node) ==
  CASE node.kind = "Text" -> node.text
    [] node.kind = "BoundText" -> UnparseInterpolation(node.parts)
    [] node.kind = "TextAttribute" -> Valued(<<>>, node.name, node.text)
    [] node.kind = "BoundAttribute" ->
         <<"[">> \o node.name \o <<"]", "=", "\"">> \o Unparse(node.parts[1].expr) \o <<"\"">>
    [] node.kind = "BoundEvent" ->
         <<"(">> \o node.name \o <<")", "=", "\"">> \o Unparse(node.parts[1].expr) \o <<"\"">>
    [] node.kind = "Reference" -> Valued(<<"#">>, node.name, node.text)
    [] node.kind = "Variable" -> Valued(<<"l", "e", "t", "-">>, node.name, node.text)
    [] node.kind = "Content" -> NG_CONTENT

\* a pending step of the printer; depth is the number of lists of children
\* the step is inside of
PrintTask(op, node, text, depth) == [op |-> op, node |-> node, text |-> text, depth |-> depth]

\* this.print(' '); node.visit(this) for every node
AttributeTasks(nodes, depth) ==
  Concat([i \in 1..Len(nodes) |->
            <<PrintTask("print", Content, <<" ">>, depth),
              PrintTask("visit", nodes[i], <<>>, depth)>>])

\* pushIndent(); print('\n') and visit for every child; print('\n') after
\* the last; popIndent()
ChildrenTasks(children, depth) ==
  <<PrintTask("pushIndent", Content, <<>>, depth)>>
    \o Concat([i \in 1..Len(children) |->
                 <<PrintTask("print", Content, <<"\n">>, depth + 1),
                   PrintTask("visit", children[i], <<>>, depth + 1)>>])
    \o (IF Len(children) > 0 THEN <<PrintTask("print", Content, <<"\n">>, depth + 1)>>
        ELSE <<>>)
    \o <<PrintTask("popIndent", Content, <<>>, depth + 1)>>

OfKind(nodes, kind) == SelectSeq(nodes, LAMBDA node : node.kind = kind)

S_input == <<"i", "n", "p", "u", "t">>

\* endSourceSpan === null: the parser gives a void element no end tag
EndSourceSpanIsNull(element) == element.name \in {S_input}

\* Printer.visitTemplate
printerVisitTemplate(tmpl, depth) ==
  <<PrintTask("print", Content, <<"<">> \o S_ng_template, depth)>>
    \o AttributeTasks(tmpl.attributes \o tmpl.variables \o tmpl.references, depth)
    \o <<PrintTask("print", Content, <<">">>, depth)>>
    \o ChildrenTasks(tmpl.children, depth)
    \o <<PrintTask("print", Content, <<"<", "/">> \o S_ng_template \o <<">">>, depth)>>

\* Printer.visitElement
printerVisitElement(element, depth) ==
  <<PrintTask("print", Content, <<"<">> \o element.name, depth)>>
    \o AttributeTasks(OfKind(element.attributes, "TextAttribute")
                        \o OfKind(element.attributes, "BoundAttribute")
                        \o OfKind(element.attributes, "BoundEvent")
                        \o element.references, depth)
    \o (IF EndSourceSpanIsNull(element) /\ Len(element.children) = 0
          THEN <<PrintTask("print", Content, <<" ", "/", ">">>, depth)>>
        ELSE <<PrintTask("print", Content, <<">">>, depth)>>
               \o ChildrenTasks(element.children, depth)
               \o <<PrintTask("print", Content,
                              <<"<", "/">> \o element.name \o <<">">>, depth)>>)

\* an indent that grows by one space
pushIndent_OneSpace(text) == text \o <<" ">>

\* this.indent += '  '
pushIndent(text) == text \o <<" ", " ">>

\* this.indent = this.indent.slice(0, -2)
popIndent(text) == SubSeq(text, 1, Len(text) - 2)

\* this.buffer += this.indent + s
print(s) == buffer' = buffer \o indent \o s

(***************************************************************************)
(* The templates that are printed                                          *)
(***************************************************************************)
PrintedLeaves ==
  {Text(<<"x">>), BT_foo, BT_after_text, Content, Icu(S_icu),
   Element(S_input, <<TextAttribute(<<"i", "d">>, <<>>)>>, <<>>, <<>>)}

\* <span>..</span> and <ng-template let-v>..</ng-template> around at most
\* one leaf
PrintedInner ==
  {Element(S_span, <<>>, kids, <<>>) : kids \in SeqUpTo(PrintedLeaves, 1)}
    \cup {Template(S_ng_template, <<>>, kids, <<>>, <<Variable(<<"v">>)>>)
            : kids \in SeqUpTo({BT_foo}, 1)}

\* <div id="x" [a]="bar" (click)="m(foo)" #r>..</div> around at most one node
PrintedOuter ==
  {Element(S_div,
           <<BoundEvent(S_click, E_m_foo), TextAttribute(<<"i", "d">>, <<"x">>),
             BoundAttribute(<<"a">>, E_bar)>>,
           kids, <<Reference(<<"r">>)>>)
     : kids \in SeqUpTo(PrintedInner \cup {BT_after_text}, 1)}

\* the template printed: <ng-template [foo]="foo" #r let-v> around at most
\* MaxChildren nodes
PrintedTemplates ==
  {Template(S_ng_template, <<BoundAttribute(S_foo, E_foo)>>, kids,
            <<Reference(<<"r">>)>>, <<Variable(<<"v">>)>>)
     : kids \in SeqUpTo(PrintedOuter
                           \cup {Text(<<"x">>),
                                 Element(S_input, <<>>, <<>>, <<>>)},
                         MaxChildren)}

(***************************************************************************)
(* printDesugaredTemplate as a state machine                               *)
(***************************************************************************)
\* const printer = new Printer(); printer.visitTemplate(template)
PrinterInit ==
  /\ printed \in PrintedTemplates
  /\ buffer = <<>>
  /\ indent = <<>>
  /\ printing = <<PrintTask("visit", printed, <<>>, 0)>>
  /\ printer = "printing"
  /\ IdleIndexer
  /\ IdleAnalysis
  /\ IdleRepair
  /\ IdleSchematic
  /\ IdleExpression

AtPrinterTask(op, kinds) ==
  /\ printer = "printing"
  /\ printing # <<>>
  /\ Head(printing).op = op
  /\ Head(printing).node.kind \in kinds

PrinterVisitTemplate ==
  /\ AtPrinterTask("visit", {"Template"})
  /\ printing' = printerVisitTemplate(Head(printing).node, Head(printing).depth)
                   \o Tail(printing)
  /\ UNCHANGED <<printed, buffer, indent, printer>>
  /\ UNCHANGED <<indexerVars, analysisVars, repairVars, schematicVars, expressionVars>>

PrinterVisitElement ==
  /\ AtPrinterTask("visit", {"Element"})
  /\ printing' = printerVisitElement(Head(printing).node, Head(printing).depth)
                   \o Tail(printing)
  /\ UNCHANGED <<printed, buffer, indent, printer>>
  /\ UNCHANGED <<indexerVars, analysisVars, repairVars, schematicVars, expressionVars>>

\* visitText, visitBoundText, visitContent and the visits of attributes,
\* events, references and variables
PrinterVisitLeaf ==
  /\ AtPrinterTask("visit", {"Text", "BoundText", "TextAttribute", "BoundAttribute",
                             "BoundEvent", "Reference", "Variable", "Content"})
  /\ print(LeafText(Head(printing).node))
  /\ printing' = Tail(printing)
  /\ UNCHANGED <<printed, indent, printer>>
  /\ UNCHANGED <<indexerVars, analysisVars, repairVars, schematicVars, expressionVars>>

\* visitIcu(_icu) {}
PrinterVisitIcu ==
  /\ AtPrinterTask("visit", {"Icu"})
  /\ printing' = Tail(printing)
  /\ UNCHANGED <<printed, buffer, indent, printer>>
  /\ UNCHANGED <<indexerVars, analysisVars, repairVars, schematicVars, expressionVars>>

PrintString ==
  /\ AtPrinterTask("print", {"Content"})
  /\ print(Head(printing).text)
  /\ printing' = Tail(printing)
  /\ UNCHANGED <<printed, indent, printer>>
  /\ UNCHANGED <<indexerVars, analysisVars, repairVars, schematicVars, expressionVars>>

PushIndent ==
  /\ AtPrinterTask("pushIndent", {"Content"})
  /\ indent' = pushIndent(indent)
  /\ printing' = Tail(printing)
  /\ UNCHANGED <<printed, buffer, printer>>
  /\ UNCHANGED <<indexerVars, analysisVars, repairVars, schematicVars, expressionVars>>

PopIndent ==
  /\ AtPrinterTask("popIndent", {"Content"})
  /\ indent' = popIndent(indent)
  /\ printing' = Tail(printing)
  /\ UNCHANGED <<printed, buffer, printer>>
  /\ UNCHANGED <<indexerVars, analysisVars, repairVars, schematicVars, expressionVars>>

\* return printer.buffer
ReturnBuffer ==
  /\ printer = "printing"
  /\ printing = <<>>
  /\ printer' = "returned"
  /\ UNCHANGED <<printed, buffer, indent, printing>>
  /\ UNCHANGED <<indexerVars, analysisVars, repairVars, schematicVars, expressionVars>>

PrinterNext ==
  \/ PrinterVisitTemplate
  \/ PrinterVisitElement
  \/ PrinterVisitLeaf
  \/ PrinterVisitIcu
  \/ PrintString
  \/ PushIndent
  \/ PopIndent
  \/ ReturnBuffer

PrinterSpec == PrinterInit /\ [][PrinterNext]_vars

(***************************************************************************)
(* Properties of the printer                                               *)
(***************************************************************************)
\* C22: while the template is printed the indent is two spaces for every
\* list of children the printer is inside of: it is 2 * d spaces at every
\* step at depth d, it grows by two spaces on entering the children of an
\* element or template and shrinks by two on leaving them, and it is
\* empty when printing has ended.
C22_TwoSpacesPerLevel ==
  /\ \A i \in 1..Len(indent) : indent[i] = " "
  /\ (printer = "printing" /\ printing # <<>>)
       => Len(indent) = 2 * Head(printing).depth
  /\ (printer = "printing" /\ printing = <<>>) => indent = <<>>
  /\ printer = "returned" => indent = <<>>

\* the printer is about to print a node three lists of children down, with
\* an indent of six spaces, after it has left other children at that depth
C22_Witness ==
  /\ printer = "printing"
  /\ printing # <<>>
  /\ Head(printing).op = "visit"
  /\ Head(printing).node.kind = "BoundText"
  /\ Head(printing).depth = 3
  /\ Len(indent) = 6
  /\ Len(printing) > 6
  /\ \E k \in 1..Len(buffer) : buffer[k] = "/"

====
